---- MODULE Spec2Model ----
(***************************************************************************)
(* Conversation / booking orchestrator of the travel agent server.         *)
(*                                                                         *)
(* Spec         the HTTP handlers of routes/chat.js, routes/flights.js,    *)
(*              routes/bookings.js acting on one session's Conversation,   *)
(*              the Booking collection and the flight provider (Duffel).   *)
(* SpecBookings the booking handlers of routes/bookings.js and             *)
(*              controllers/userController.js on a session ready to pay.   *)
(* SpecModel    the instance methods of models/Conversation.js called on   *)
(*              a conversation in an arbitrary stage.                      *)
(* SpecService  createOrder and createHoldOrder of                         *)
(*              services/duffel.service.js called with arbitrary arguments.*)
(* SpecSearch   one call of searchFlights with its detail fetches.         *)
(* SpecHoldOrder payForHoldOrder and cancelOrder called for an order held  *)
(*              at the provider.                                           *)
(* SpecRace     a /flights/select and a filter message of one session that *)
(*              overlap, step by step between their loads and saves.       *)
(* SpecSearchRoutes the three ways to submit a search, and the selection.  *)
(* SpecExpiry   the pre-save hook, the sweep and the expiry index, with a  *)
(*              clock.                                                     *)
(* SpecHistory  updateSearchParams and trackViewedOffer called repeatedly. *)
(* SpecSanitize sanitizeContextForAI on the contexts of two conversations. *)
(* SpecSelection the selection handlers while the provider's prices move.  *)
(* SpecRefresh  refreshOffer for an offer found by a search.               *)
(* SpecDiverse  selectDiverseOffers on a list of offers.                   *)
(* SpecFilter   filterOffers on formatted offers.                          *)
(* SpecMultiCity validateMultiCity on a chain of segments.                 *)
(* SpecRepeatCreate /bookings/create sent more than once for a session.    *)
(* SpecConfirmation the routes that write currentStage, after a selection. *)
(***************************************************************************)
EXTENDS Integers, Sequences, FiniteSets, TLC

VARIABLES
  conversation,   \* the session's Conversation document as stored
  bookings,       \* the Booking collection, in creation order
  duffel,         \* the provider: offers' current totals and the calls received
  call            \* the answer to the last request or call; in the
                  \* specifications of calls in progress, their state

vars == <<conversation, bookings, duffel, call>>

----------------------------------------------------------------------------
(* Bounds *)

MaxPax == 2        \* longest passenger list submitted
MaxMessages == 2   \* longest message log
MaxCalls == 1      \* most requests of one kind the provider receives

----------------------------------------------------------------------------
(* Values *)

NoUser == "none"
Users == {"u1", "u2"}
ReqUsers == Users \cup {NoUser}

OfferIds == {"o1", "o2"}
OfferSlots == [o1 |-> 1, o2 |-> 2]

\* parseFloat on the provider's amount strings
ParseFloat(s) ==
  CASE s = "100.00" -> 100
    [] s = "120.00" -> 120
    [] s = "80" -> 80
    [] s = "100" -> 100
    [] s = "120" -> 120
    [] OTHER -> 0

OfferDuration == [o1 |-> 150, o2 |-> 45]
OfferDeparture == [o1 |-> 9, o2 |-> 23]

NoOffer == [id |-> "none", totalAmount |-> 0, totalCurrency |-> "none",
            durationMinutes |-> 0, departure |-> 0]

Stages == {"initial", "search", "selection", "authentication",
           "passenger_details", "additional_services", "payment", "confirmation"}

PhoneLocal == <<"0", "6", "1", "2", "3", "4", "5", "6", "7", "8">>
PhoneIntl == <<"+", "3", "1", "6", "1", "2", "3", "4", "5", "6", "7", "8">>
PhoneDashed == <<"0", "6", "-", "1", "2">>
PhoneNone == <<>>

PassengerSamples ==
  << [title |-> "Mr",  gender |-> "",       phoneNumber |-> PhoneLocal],
     [title |-> "Mrs", gender |-> "female", phoneNumber |-> PhoneIntl] >>

\* the passenger lists passed to the order functions
PassengerLists ==
  { [i \in 1..n |-> PassengerSamples[2 - (i % 2)]] : n \in 0..MaxPax }

NluPassenger == [title |-> "Dr", gender |-> "", phoneNumber |-> PhoneDashed]

\* the passenger lists the NLU extracts from a chat message
NluPassengerLists ==
  { [i \in 1..n |-> NluPassenger] : n \in 0..MaxPax }
  \cup { <<[title |-> "Dr", gender |-> "", phoneNumber |-> PhoneNone]>> }

\* userSchema.methods.toPassengerFormat, for the two registered users
ToPassengerFormat(u) ==
  IF u = "u1" THEN [title |-> "Mr", gender |-> "male", phoneNumber |-> PhoneLocal]
              ELSE [title |-> "Mrs", gender |-> "", phoneNumber |-> PhoneIntl]

SearchParamSamples ==
  { [origin |-> "AMS", destination |-> "LHR"],
    [origin |-> "AMS", destination |-> "AMS"],
    [origin |-> "",    destination |-> "LHR"] }

NoParams == [origin |-> "", destination |-> ""]

\* the listings a search can return: offers of the provider, none repeated
SearchListings == { <<>>, <<"o1">>, <<"o2", "o1">> }

ServiceLists == { <<>>, <<"s3", "s2", "s1">> }

----------------------------------------------------------------------------
(* models/Conversation.js *)

validTransitions ==
  [ initial             |-> {"search"},
    search              |-> {"selection"},
    selection           |-> {"authentication", "passenger_details"},
    authentication      |-> {"passenger_details", "additional_services"},
    passenger_details   |-> {"additional_services"},
    additional_services |-> {"payment"},
    payment             |-> {"confirmation"},
    confirmation        |-> {} ]

canTransitionTo(conv, targetStage) ==
  targetStage \in validTransitions[conv.currentStage]

updateStageAlways(conv, newStage) ==
  [conv |-> [conv EXCEPT !.currentStage = newStage], ret |-> TRUE]

\* returns the document after the call and the method's return value
updateStage(conv, newStage) ==
  IF newStage \in validTransitions[conv.currentStage]
  THEN [conv |-> [conv EXCEPT !.currentStage = newStage], ret |-> TRUE]
  ELSE [conv |-> conv, ret |-> FALSE]

\* new Conversation({...}) of POST /chat/start
NewConversation ==
  [ currentStage       |-> "initial",
    user               |-> NoUser,
    flightSearchParams |-> NoParams,
    messages           |-> <<>>,
    searchResults      |-> <<>>,
    selectedOffer      |-> NoOffer,
    passengerDetails   |-> <<>>,
    selectedServices   |-> <<>>,
    bookingReference   |-> 0,
    duffelOrderId      |-> 0,
    paymentStatus      |-> "pending" ]

----------------------------------------------------------------------------
(* services/validation.service.js *)

\* validateFlightSearch: the origin / destination rules
validateFlightSearch(params) ==
  (IF params.origin = "" THEN {"origin"} ELSE {})
  \cup (IF params.destination = "" THEN {"destination"} ELSE {})
  \cup (IF params.origin = params.destination THEN {"same"} ELSE {})

\* validatePassengerDetails: the list and phone number rules
validatePassengerDetails(passengers) ==
  IF Len(passengers) = 0 THEN {"passengers"}
  ELSE { "phoneNumber" : i \in { j \in 1..Len(passengers) :
                                   passengers[j].phoneNumber = <<>> } }

----------------------------------------------------------------------------
(* services/duffel.service.js: search side *)

\* formatOffers: the listed offer at the provider's current total
formatOffer(o) ==
  [ id              |-> o,
    totalAmount     |-> ParseFloat(duffel.offers[o].total_amount),
    totalCurrency   |-> duffel.offers[o].total_currency,
    durationMinutes |-> OfferDuration[o],
    departure       |-> OfferDeparture[o] ]

formatOffers(listing) == [i \in 1..Len(listing) |-> formatOffer(listing[i])]

----------------------------------------------------------------------------
(* services/duffel.service.js: order side *)

Digits == {"0", "1", "2", "3", "4", "5", "6", "7", "8", "9"}

IsDigit(c) == c \in Digits

\* phoneNumber.replace(/\D/g, '')
StripNonDigits(phone) == SelectSeq(phone, IsDigit)

formatPhoneNumber(phoneNumber) ==
  IF phoneNumber = <<>> THEN <<>>
  ELSE LET cleaned == StripNonDigits(phoneNumber)
           prefixed == IF Len(cleaned) <= 10 THEN <<"3", "1">> \o cleaned ELSE cleaned
       IN  IF cleaned # <<>> /\ cleaned[1] = "+" THEN cleaned ELSE <<"+">> \o prefixed

\* the gender sent by createOrder
duffelGender(passenger) ==
  IF passenger.gender \in {"male", "m"} THEN "m"
  ELSE IF passenger.gender \in {"female", "f"} THEN "f"
  ELSE IF passenger.title = "Mr" THEN "m"
  ELSE IF passenger.title \in {"Mrs", "Ms", "Miss"} THEN "f"
  ELSE "other"

mapTitleToGender(title) ==
  IF title = "" THEN "other"
  ELSE IF title \in {"Mr", "mr", "MR"} THEN "male"
  ELSE IF title \in {"Mrs", "Ms", "Miss", "mrs", "ms", "miss"} THEN "female"
  ELSE "other"

\* offer.passengers.map(p => p.id) of the fetched offer
offerPassengerIds(offerId) ==
  [i \in 1..OfferSlots[offerId] |-> [offer |-> offerId, slot |-> i]]

\* offer.available_services.map(s => s.id) of the fetched offer
availableServiceIds(offerId) == IF offerId = "o1" THEN {"s1", "s3"} ELSE {}

formattedPassengers(offerId, passengers) ==
  [i \in 1..Len(passengers) |->
     [ id           |-> offerPassengerIds(offerId)[i],
       phone_number |-> formatPhoneNumber(passengers[i].phoneNumber),
       title        |-> passengers[i].title,
       gender       |-> duffelGender(passengers[i]) ]]

IsAvailable(offerId, s) == s \in availableServiceIds(offerId)

validServicesAll(offerId, services) == services

validServices(offerId, services) ==
  SelectSeq(services, LAMBDA s : IsAvailable(offerId, s))

formattedServices(services) ==
  [i \in 1..Len(services) |-> [id |-> services[i], quantity |-> 1]]

paymentFromCaller(offer, paymentDetails) ==
  [ type     |-> IF paymentDetails.type = "card" THEN "balance" ELSE paymentDetails.type,
    currency |-> paymentDetails.currency,
    amount   |-> ToString(paymentDetails.amount) ]

\* orderData.payments[0]: the fetched offer's exact total
orderPayment(offer, paymentDetails) ==
  [ type     |-> IF paymentDetails.type = "card" THEN "balance" ELSE paymentDetails.type,
    currency |-> offer.total_currency,
    amount   |-> offer.total_amount ]

countMatchesAlways(offerId, passengers) == TRUE

countMatches(offerId, passengers) ==
  Len(passengers) = Len(offerPassengerIds(offerId))

\* createOrder on provider state d; getOk / createOk are the provider's
\* answers to offers.get and orders.create; the passengers map throws for
\* an index that has no passenger id in the offer
createOrder(d, offerId, passengers, paymentDetails, services, getOk, createOk) ==
  IF offerId \notin OfferIds \/ ~getOk
  THEN [d |-> d, ok |-> FALSE, error |-> "offer", order |-> 0]
  ELSE IF ~countMatches(offerId, passengers)
  THEN [d |-> d, ok |-> FALSE, error |-> "Passenger count mismatch", order |-> 0]
  ELSE IF Len(passengers) > Len(offerPassengerIds(offerId))
  THEN [d |-> d, ok |-> FALSE, error |-> "No matching passenger ID", order |-> 0]
  ELSE
    LET offer == d.offers[offerId]
        orderData ==
          [ selected_offers |-> <<offerId>>,
            passengers      |-> formattedPassengers(offerId, passengers),
            payments        |-> <<orderPayment(offer, paymentDetails)>>,
            services        |-> formattedServices(validServices(offerId, services)) ]
        entry ==
          [ by       |-> "createOrder",
            args     |-> [offerId |-> offerId, passengers |-> passengers,
                          paymentDetails |-> paymentDetails, services |-> services],
            data     |-> orderData,
            accepted |-> createOk,
            total    |-> offer ]
        d2 == [d EXCEPT !.orders = Append(@, entry)]
    IN  IF createOk
        THEN [d |-> d2, ok |-> TRUE, error |-> "none", order |-> Len(d2.orders)]
        ELSE [d |-> d2, ok |-> FALSE, error |-> "provider", order |-> 0]

\* createHoldOrder: no offer fetch, no payments
createHoldOrder(d, offerId, passengers, services, createOk) ==
  LET holdOrderData ==
        [ selected_offers |-> <<offerId>>,
          passengers      |->
            [i \in 1..Len(passengers) |->
               [ phone_number |-> passengers[i].phoneNumber,
                 title        |-> passengers[i].title,
                 gender       |-> IF passengers[i].gender # ""
                                  THEN passengers[i].gender
                                  ELSE mapTitleToGender(passengers[i].title) ]],
          payments        |-> <<>>,
          services        |-> formattedServices(services) ]
      entry ==
        [ by       |-> "createHoldOrder",
          args     |-> [offerId |-> offerId, passengers |-> passengers,
                        paymentDetails |-> [type |-> "none", amount |-> 0, currency |-> "none"],
                        services |-> services],
          data     |-> holdOrderData,
          accepted |-> createOk,
          total    |-> IF offerId \in OfferIds THEN d.offers[offerId]
                       ELSE [total_amount |-> "none", total_currency |-> "none"] ]
      d2 == [d EXCEPT !.orders = Append(@, entry)]
  IN  IF createOk
      THEN [d |-> d2, ok |-> TRUE, order |-> Len(d2.orders)]
      ELSE [d |-> d2, ok |-> FALSE, order |-> 0]

\* the order exists at the provider
OrderExists(d, orderId) ==
  orderId \in 1..Len(d.orders) /\ d.orders[orderId].accepted

\* payForHoldOrder: orders.get, then payments.create
payForHoldOrder(d, orderId, paymentDetails, getOk, payOk) ==
  IF ~OrderExists(d, orderId) \/ ~getOk
  THEN [d |-> d, ok |-> FALSE]
  ELSE
    LET order == d.orders[orderId]
        entry ==
          [ order_id |-> orderId,
            payment  |-> [ type     |-> IF paymentDetails.type = "" THEN "balance"
                                        ELSE paymentDetails.type,
                           amount   |-> ToString(paymentDetails.amount),
                           currency |-> paymentDetails.currency ],
            fetched  |-> order.total,
            accepted |-> payOk ]
    IN  [d |-> [d EXCEPT !.payments = Append(@, entry)], ok |-> payOk]

\* cancelOrder: orderCancellations.create, then confirm of the id it returned
cancelOrder(d, orderId, createOk, confirmOk) ==
  IF ~createOk
  THEN [d |-> d, ok |-> FALSE]
  ELSE
    LET d2 == [d EXCEPT !.cancellations =
                 Append(@, [order_id |-> orderId, confirmed |-> FALSE])]
        id == Len(d2.cancellations)
    IN  IF confirmOk
        THEN [d |-> [d2 EXCEPT !.cancellations[id].confirmed = TRUE], ok |-> TRUE]
        ELSE [d |-> d2, ok |-> FALSE]

----------------------------------------------------------------------------
(* routes/chat.js, routes/flights.js: selectDiverseOffers *)

\* the key of the sorts byPrice, byDuration and byTime
SortKey(by, o) ==
  IF by = "byPrice" THEN o.totalAmount
  ELSE IF by = "byDuration" THEN o.durationMinutes
  ELSE o.departure

UnselectedAny(offers, selected) == 1..Len(offers)

\* indices of the offers whose id is not yet among the selected
Unselected(offers, selected) ==
  { i \in 1..Len(offers) : \A j \in 1..Len(selected) : selected[j].id # offers[i].id }

\* first offer of a stable ascending sort, restricted to the candidates
FirstBy(offers, by, cand) ==
  CHOOSE i \in cand : \A j \in cand :
    \/ SortKey(by, offers[i]) < SortKey(by, offers[j])
    \/ (SortKey(by, offers[i]) = SortKey(by, offers[j]) /\ i <= j)

PushFirstBy(offers, by, selected) ==
  IF Unselected(offers, selected) = {} THEN selected
  ELSE Append(selected, offers[FirstBy(offers, by, Unselected(offers, selected))])

RECURSIVE FillRemaining(_, _, _, _)
FillRemaining(offers, i, selected, count) ==
  IF i > Len(offers) \/ Len(selected) >= count THEN selected
  ELSE IF i \in Unselected(offers, selected)
       THEN FillRemaining(offers, i + 1, Append(selected, offers[i]), count)
       ELSE FillRemaining(offers, i + 1, selected, count)

selectDiverseOffers(offers, count) ==
  IF Len(offers) <= count THEN offers
  ELSE LET s1 == <<offers[FirstBy(offers, "byPrice", 1..Len(offers))]>>
           s2 == PushFirstBy(offers, "byDuration", s1)
           s3 == PushFirstBy(offers, "byTime", s2)
           s4 == FillRemaining(offers, 1, s3, count)
       IN  SubSeq(s4, 1, IF Len(s4) < count THEN Len(s4) ELSE count)

DiverseCount == 3

----------------------------------------------------------------------------
(* routes/chat.js *)

Stage == conversation.currentStage

CanPush(k) == Len(conversation.messages) + k <= MaxMessages

Push(conv, roles) == [conv EXCEPT !.messages = @ \o roles]

\* the answer sent: res.status(code), and the error behind it
Answer(code, error) == call' = [code |-> code, error |-> error]

\* POST /chat/start for the existing session
ChatStart(u) ==
  /\ u # NoUser
  /\ conversation.user = NoUser
  /\ conversation' = [conversation EXCEPT !.user = u]
  /\ Answer(200, "none")
  /\ UNCHANGED <<bookings, duffel>>

\* POST /chat/set-authenticated
ChatSetAuthenticated(u) ==
  /\ u # NoUser
  /\ LET c1 == [conversation EXCEPT !.user = u,
                                    !.passengerDetails = <<ToPassengerFormat(u)>>]
     IN  IF Stage = "authentication"
         THEN /\ CanPush(1)
              /\ conversation' =
                   Push([c1 EXCEPT !.currentStage = "additional_services"], <<"assistant">>)
         ELSE conversation' = c1
  /\ Answer(200, "none")
  /\ UNCHANGED <<bookings, duffel>>

\* POST /chat/message: first branch, the user logged in after selecting
LoggedInAfterSelection(u) ==
  u # NoUser /\ Stage = "authentication" /\ conversation.user = NoUser

ChatMessageLoggedIn(u) ==
  /\ LoggedInAfterSelection(u)
  /\ CanPush(1)
  /\ conversation' =
       Push([conversation EXCEPT !.user = u,
                                 !.passengerDetails = <<ToPassengerFormat(u)>>,
                                 !.currentStage = "additional_services"],
            <<"assistant">>)
  /\ Answer(200, "none")
  /\ UNCHANGED <<bookings, duffel>>

\* POST /chat/message with message = 'passenger_details_completed'
ChatMessagePassengerDetailsCompleted(u) ==
  /\ ~LoggedInAfterSelection(u)
  /\ CanPush(1)
  /\ conversation' =
       Push([conversation EXCEPT !.currentStage = "additional_services"], <<"assistant">>)
  /\ Answer(200, "none")
  /\ UNCHANGED <<bookings, duffel>>

\* POST /chat/message with message = 'additional_services_completed';
\* reading selectedOffer.totalAmount throws when no offer is selected, and
\* the route's catch answers 500 without saving
ChatMessageAdditionalServicesCompleted(u) ==
  /\ ~LoggedInAfterSelection(u)
  /\ CanPush(1)
  /\ IF conversation.selectedOffer = NoOffer
     THEN /\ UNCHANGED conversation
          /\ Answer(500, "TypeError")
     ELSE /\ conversation' =
               Push([conversation EXCEPT !.currentStage = "payment"], <<"assistant">>)
          /\ Answer(200, "none")
  /\ UNCHANGED <<bookings, duffel>>

\* POST /chat/message, any other message while in stage authentication
ChatMessageRequiresAuth(u) ==
  /\ ~LoggedInAfterSelection(u)
  /\ Stage = "authentication"
  /\ CanPush(2)
  /\ conversation' = Push(conversation, <<"user", "assistant">>)
  /\ Answer(200, "none")
  /\ UNCHANGED <<bookings, duffel>>

\* the message reaches the NLU: the user message is already pushed
ReachesNLU == Stage # "authentication" /\ CanPush(2)

\* POST /chat/message answered by the NLU with a plain message
ChatMessagePlain ==
  /\ ReachesNLU
  /\ conversation' = Push(conversation, <<"user", "assistant">>)
  /\ Answer(200, "none")
  /\ UNCHANGED <<bookings, duffel>>

\* handleFunctionCall: default case
handleUnknownFunction ==
  /\ ReachesNLU
  /\ conversation' = Push(conversation, <<"user", "assistant">>)
  /\ Answer(200, "none")
  /\ UNCHANGED <<bookings, duffel>>

searchAllowedAlways(errors) == TRUE

\* if (validationResult.errors.length > 0) return ...: the handler goes on
\* to the search only without errors
searchAllowed(errors) == errors = {}

\* duffelService.searchFlights(params) called: the request the provider gets
searchIssued(d, params) == [d EXCEPT !.searches = @ \cup {params}]

handleFlightSearchParams(params, listing, searchOk) ==
  /\ ReachesNLU
  /\ LET c0 == Push(conversation, <<"user", "assistant">>)
     IN  IF ~searchAllowed(validateFlightSearch(params))
         THEN /\ conversation' = c0
              /\ Answer(200, "none")
              /\ UNCHANGED duffel
         ELSE IF ~searchOk
         THEN /\ conversation' = [c0 EXCEPT !.flightSearchParams = params]
              /\ Answer(200, "none")
              /\ duffel' = searchIssued(duffel, params)
         ELSE /\ conversation' =
                   [c0 EXCEPT !.flightSearchParams = params,
                              !.searchResults =
                                 selectDiverseOffers(formatOffers(listing), DiverseCount),
                              !.currentStage = "selection"]
              /\ Answer(200, "none")
              /\ duffel' = searchIssued(duffel, params)
  /\ UNCHANGED bookings

\* optionNumber below 1 reads an undefined offer and throws into the catch
handleSelectFlightOffer(u, optionNumber, servicesOk) ==
  /\ ReachesNLU
  /\ LET c0 == Push(conversation, <<"user", "assistant">>)
     IN  IF Len(conversation.searchResults) < optionNumber
            \/ optionNumber < 1 \/ ~servicesOk
         THEN /\ conversation' = c0
              /\ Answer(200, "none")
         ELSE LET c1 == [c0 EXCEPT !.selectedOffer =
                                      conversation.searchResults[optionNumber]]
              IN  /\ conversation' =
                       IF u # NoUser
                       THEN [c1 EXCEPT !.passengerDetails = <<ToPassengerFormat(u)>>,
                                       !.currentStage = "additional_services",
                                       !.user = u]
                       ELSE [c1 EXCEPT !.currentStage = "authentication"]
                  /\ Answer(200, "none")
  /\ UNCHANGED <<bookings, duffel>>

handleExtractPassengerDetails(passengers) ==
  /\ ReachesNLU
  /\ LET c0 == Push(conversation, <<"user", "assistant">>)
     IN  IF validatePassengerDetails(passengers) # {}
         THEN /\ conversation' = c0
              /\ Answer(200, "none")
         ELSE /\ conversation' = [c0 EXCEPT !.passengerDetails = passengers,
                                            !.currentStage = "additional_services"]
              /\ Answer(200, "none")
  /\ UNCHANGED <<bookings, duffel>>

\* the stage is assigned before selectedOffer.totalAmount is read, and the
\* catch saves the conversation too
handleSelectAdditionalServices(services) ==
  /\ ReachesNLU
  /\ conversation' =
       [Push(conversation, <<"user", "assistant">>)
          EXCEPT !.selectedServices = services, !.currentStage = "payment"]
  /\ Answer(200, "none")
  /\ UNCHANGED <<bookings, duffel>>

----------------------------------------------------------------------------
(* routes/flights.js *)

\* POST /flights/search and the tail of POST /flights/search-multi-city:
\* a validation error answers 400 and a failed search 500, both unsaved
SearchAndStore(params, listing, searchOk) ==
  /\ IF ~searchAllowed(validateFlightSearch(params))
     THEN /\ UNCHANGED <<conversation, duffel>>
          /\ Answer(400, "validation")
     ELSE IF ~searchOk
     THEN /\ UNCHANGED conversation
          /\ Answer(500, "search")
          /\ duffel' = searchIssued(duffel, params)
     ELSE /\ conversation' =
               [conversation EXCEPT !.searchResults = formatOffers(listing),
                                    !.flightSearchParams = params,
                                    !.currentStage = "selection"]
          /\ Answer(200, "none")
          /\ duffel' = searchIssued(duffel, params)
  /\ UNCHANGED bookings

FlightsSearch(params, listing, searchOk) ==
  SearchAndStore(params, listing, searchOk)

\* multiCityParams takes origin and destination from segments[0]
FlightsSearchMultiCity(segments, listing, searchOk) ==
  /\ Len(segments) >= 1
  /\ SearchAndStore([origin |-> segments[1].origin,
                     destination |-> segments[1].destination],
                    listing, searchOk)

\* index of the first search result with the id, 0 when there is none
FindOffer(results, offerId) ==
  IF \E i \in 1..Len(results) : results[i].id = offerId
  THEN CHOOSE i \in 1..Len(results) :
         results[i].id = offerId /\ \A j \in 1..(i - 1) : results[j].id # offerId
  ELSE 0

\* POST /flights/select; detailOk: getOfferDetails answered, and its
\* result is merged into the found search result by Object.assign
FlightsSelect(u, offerId, detailOk) ==
  /\ LET i == FindOffer(conversation.searchResults, offerId)
     IN  IF i = 0
         THEN /\ UNCHANGED conversation
              /\ Answer(404, "offer")
         ELSE LET selectedOffer == IF detailOk THEN formatOffer(offerId)
                                   ELSE conversation.searchResults[i]
                  c1 == [conversation EXCEPT !.searchResults[i] = selectedOffer,
                                             !.selectedOffer = selectedOffer]
              IN  /\ conversation' =
                       IF u # NoUser
                       THEN [c1 EXCEPT !.passengerDetails = <<ToPassengerFormat(u)>>,
                                       !.currentStage = "additional_services",
                                       !.user = u]
                       ELSE [c1 EXCEPT !.currentStage = "authentication"]
                  /\ Answer(200, "none")
  /\ UNCHANGED <<bookings, duffel>>

----------------------------------------------------------------------------
(* routes/bookings.js *)

BookingStatuses == {"pending", "confirmed", "cancelled", "completed"}

\* the status an order read from the provider carries
ProviderStatuses == BookingStatuses \cup {"expired"}

PaymentTypes == {"balance", "card"}

orderCreatedAlways(r) == TRUE

\* await duffelService.createOrder(...): a throw skips to catch (orderError)
orderCreated(r) == r.ok

bookingConfirmedStageOnly(conv, order) ==
  [conv EXCEPT !.currentStage = "confirmation"]

\* the conversation update saved after booking.save()
bookingConfirmed(conv, order) ==
  [conv EXCEPT !.bookingReference = order,
               !.duffelOrderId = order,
               !.currentStage = "confirmation",
               !.paymentStatus = "completed"]

\* POST /bookings/create; saveOk: booking.save() passed validation
BookingsCreateRoute(u, paymentType, additionalServices, getOk, createOk, saveOk) ==
  /\ IF conversation.selectedOffer = NoOffer \/ Len(conversation.passengerDetails) = 0
     THEN /\ UNCHANGED <<conversation, bookings, duffel>>
          /\ Answer(400, "incomplete")
     ELSE
       LET r == createOrder(duffel, conversation.selectedOffer.id,
                            conversation.passengerDetails,
                            [ type     |-> paymentType,
                              amount   |-> conversation.selectedOffer.totalAmount,
                              currency |-> conversation.selectedOffer.totalCurrency ],
                            additionalServices, getOk, createOk)
           booking == [ conversationId     |-> 1,
                        userId             |-> u,
                        duffelOrderId      |-> r.order,
                        bookingReference   |-> r.order,
                        status             |-> "confirmed",
                        cancellationDetails |-> "none" ]
       IN  /\ duffel' = r.d
           /\ IF ~orderCreated(r)
              THEN /\ UNCHANGED <<conversation, bookings>>
                   /\ Answer(IF r.error = "provider" THEN 400 ELSE 500, r.error)
              ELSE IF ~saveOk
              THEN /\ UNCHANGED <<conversation, bookings>>
                   /\ Answer(500, "save")
              ELSE /\ bookings' = Append(bookings, booking)
                   /\ conversation' = bookingConfirmed(conversation, r.order)
                   /\ Answer(200, "none")

\* the route while the provider has taken fewer than MaxCalls order requests
BookingsCreate(u, paymentType, additionalServices, getOk, createOk, saveOk) ==
  /\ Len(duffel.orders) < MaxCalls
  /\ BookingsCreateRoute(u, paymentType, additionalServices, getOk, createOk, saveOk)

\* POST /bookings/:bookingReference/cancel
BookingsCancel(u, b, createOk, confirmOk) ==
  /\ b \in 1..Len(bookings)
  /\ Len(duffel.cancellations) < MaxCalls
  /\ IF u # NoUser /\ bookings[b].userId # NoUser /\ bookings[b].userId # u
     THEN /\ UNCHANGED <<bookings, duffel>>
          /\ Answer(403, "user")
     ELSE LET r == cancelOrder(duffel, bookings[b].duffelOrderId, createOk, confirmOk)
          IN  /\ duffel' = r.d
              /\ bookings' =
                   IF r.ok
                   THEN [bookings EXCEPT ![b].status = "cancelled",
                                         ![b].cancellationDetails = "set"]
                   ELSE bookings
              /\ Answer(IF r.ok THEN 200 ELSE 400, IF r.ok THEN "none" ELSE "cancellation")
  /\ UNCHANGED conversation

----------------------------------------------------------------------------
(* controllers/userController.js, behind the protect middleware *)

ProviderAnswers == ProviderStatuses \cup {"error"}

\* the status stored after reading the order: a changed status is copied
\* and saved; a status outside the schema's enum fails the save
SyncedStatus(booking, answer) ==
  IF answer # "error" /\ answer # booking.status /\ answer \in BookingStatuses
  THEN answer ELSE booking.status

\* GET /users/bookings; answers[i] is what getOrder gives for booking i
getUserBookings(u, answers) ==
  /\ u # NoUser
  /\ bookings # <<>>
  /\ bookings' =
       [i \in 1..Len(bookings) |->
          IF bookings[i].userId = u /\ bookings[i].status # "cancelled"
             /\ bookings[i].duffelOrderId # 0
          THEN [bookings[i] EXCEPT !.status = SyncedStatus(bookings[i], answers[i])]
          ELSE bookings[i]]
  /\ Answer(200, "none")
  /\ UNCHANGED <<conversation, duffel>>

\* GET /users/bookings/:bookingId
getBookingById(u, b, answer) ==
  /\ u # NoUser
  /\ b \in 1..Len(bookings)
  /\ IF bookings[b].userId # u
     THEN /\ UNCHANGED bookings
          /\ Answer(404, "booking")
     ELSE /\ bookings' =
               IF bookings[b].duffelOrderId # 0
               THEN [bookings EXCEPT ![b].status = SyncedStatus(bookings[b], answer)]
               ELSE bookings
          /\ Answer(200, "none")
  /\ UNCHANGED <<conversation, duffel>>

\* PUT /users/bookings/:bookingId/cancel
cancelBooking(u, b, createOk, confirmOk) ==
  /\ u # NoUser
  /\ b \in 1..Len(bookings)
  /\ Len(duffel.cancellations) < MaxCalls
  /\ IF bookings[b].userId # u \/ bookings[b].status = "cancelled"
     THEN /\ UNCHANGED <<bookings, duffel>>
          /\ Answer(IF bookings[b].userId # u THEN 404 ELSE 400, "booking")
     ELSE IF bookings[b].duffelOrderId # 0
     THEN LET r == cancelOrder(duffel, bookings[b].duffelOrderId, createOk, confirmOk)
          IN  /\ duffel' = r.d
              /\ bookings' =
                   IF r.ok
                   THEN [bookings EXCEPT ![b].status = "cancelled",
                                         ![b].cancellationDetails = "set"]
                   ELSE bookings
              /\ Answer(IF r.ok THEN 200 ELSE 400, IF r.ok THEN "none" ELSE "cancellation")
     ELSE /\ bookings' = [bookings EXCEPT ![b].status = "cancelled",
                                          ![b].cancellationDetails = "set"]
          /\ UNCHANGED duffel
          /\ Answer(200, "none")
  /\ UNCHANGED conversation

----------------------------------------------------------------------------
(* The specification of the handlers *)

NewProvider ==
  [ offers        |-> [o \in OfferIds |->
                         [total_amount |-> "100.00", total_currency |-> "EUR"]],
    orders        |-> <<>>,
    payments      |-> <<>>,
    cancellations |-> <<>>,
    searches      |-> {} ]

Init ==
  /\ conversation = NewConversation
  /\ bookings = <<>>
  /\ duffel = NewProvider
  /\ call = [code |-> 0, error |-> "none"]

Next ==
  \/ \E u \in ReqUsers : ChatStart(u)
  \/ \E u \in ReqUsers : ChatSetAuthenticated(u)
  \/ \E u \in ReqUsers : ChatMessageLoggedIn(u)
  \/ \E u \in ReqUsers : ChatMessagePassengerDetailsCompleted(u)
  \/ \E u \in ReqUsers : ChatMessageAdditionalServicesCompleted(u)
  \/ \E u \in ReqUsers : ChatMessageRequiresAuth(u)
  \/ ChatMessagePlain
  \/ handleUnknownFunction
  \/ \E p \in SearchParamSamples, l \in SearchListings, ok \in BOOLEAN :
       handleFlightSearchParams(p, l, ok)
  \/ \E u \in ReqUsers, n \in 0..2, ok \in BOOLEAN : handleSelectFlightOffer(u, n, ok)
  \/ \E ps \in NluPassengerLists : handleExtractPassengerDetails(ps)
  \/ \E s \in ServiceLists : handleSelectAdditionalServices(s)
  \/ \E p \in SearchParamSamples, l \in SearchListings, ok \in BOOLEAN :
       FlightsSearch(p, l, ok)
  \/ \E p \in SearchParamSamples, l \in SearchListings, ok \in BOOLEAN :
       FlightsSearchMultiCity(<<p>>, l, ok)
  \/ \E u \in ReqUsers, o \in OfferIds, ok \in BOOLEAN : FlightsSelect(u, o, ok)
  \/ \E u \in ReqUsers, t \in PaymentTypes,
        getOk \in BOOLEAN, createOk \in BOOLEAN, saveOk \in BOOLEAN :
       BookingsCreate(u, t, <<"s2", "s1">>, getOk, createOk, saveOk)

Spec == Init /\ [][Next]_vars

----------------------------------------------------------------------------
(* The bookings of a session that is ready to pay: creation, reads with    *)
(* status synchronisation, and the two cancellation handlers               *)

\* the conversation after a search, the selection of an offer by a logged
\* in user (whose profile gives one passenger) and the completion of the
\* services step
ReadyConversation(u, listing, o) ==
  [NewConversation EXCEPT
     !.currentStage = "payment",
     !.user = u,
     !.flightSearchParams = [origin |-> "AMS", destination |-> "LHR"],
     !.messages = <<"assistant">>,
     !.searchResults = formatOffers(listing),
     !.selectedOffer = formatOffer(o),
     !.passengerDetails = <<ToPassengerFormat(u)>>]

\* the conversation of a guest whose message gave two passengers, who then
\* searched and selected an offer by the routes
GuestConversation(o) ==
  [NewConversation EXCEPT
     !.currentStage = "authentication",
     !.flightSearchParams = [origin |-> "AMS", destination |-> "LHR"],
     !.messages = <<"user", "assistant">>,
     !.searchResults = formatOffers(<<"o2", "o1">>),
     !.selectedOffer = formatOffer(o),
     !.passengerDetails = <<NluPassenger, NluPassenger>>]

ReadyConversations ==
  { ReadyConversation(u, <<"o1">>, "o1") : u \in Users }
  \cup { ReadyConversation(u, <<"o2", "o1">>, "o2") : u \in Users }
  \cup { GuestConversation(o) : o \in OfferIds }

InitBookings ==
  /\ duffel = NewProvider
  /\ conversation \in ReadyConversations
  /\ bookings = <<>>
  /\ call = [code |-> 0, error |-> "none"]

NextBookings ==
  \/ \E u \in ReqUsers, t \in PaymentTypes,
        getOk \in BOOLEAN, createOk \in BOOLEAN, saveOk \in BOOLEAN :
       BookingsCreate(u, t, <<"s2", "s1">>, getOk, createOk, saveOk)
  \/ \E u \in ReqUsers, b \in 1..Len(bookings), c1 \in BOOLEAN, c2 \in BOOLEAN :
       BookingsCancel(u, b, c1, c2)
  \/ \E u \in Users, a \in [1..Len(bookings) -> ProviderAnswers] : getUserBookings(u, a)
  \/ \E u \in Users, b \in 1..Len(bookings), a \in ProviderAnswers : getBookingById(u, b, a)
  \/ \E u \in Users, b \in 1..Len(bookings), c1 \in BOOLEAN, c2 \in BOOLEAN :
       cancelBooking(u, b, c1, c2)

SpecBookings == InitBookings /\ [][NextBookings]_vars

----------------------------------------------------------------------------
(* The Conversation methods called on a conversation in any stage *)

CallUpdateStage(newStage) ==
  LET r == updateStage(conversation, newStage)
  IN  /\ conversation' = r.conv
      /\ call' = [method |-> "updateStage", arg |-> newStage,
                  before |-> conversation.currentStage, ret |-> r.ret]
      /\ UNCHANGED <<bookings, duffel>>

CallCanTransitionTo(targetStage) ==
  /\ call' = [method |-> "canTransitionTo", arg |-> targetStage,
              before |-> conversation.currentStage,
              ret |-> canTransitionTo(conversation, targetStage)]
  /\ UNCHANGED <<conversation, bookings, duffel>>

InitModel ==
  /\ conversation \in { [NewConversation EXCEPT !.currentStage = s] : s \in Stages }
  /\ bookings = <<>>
  /\ duffel = NewProvider
  /\ call = [method |-> "none", arg |-> "none", before |-> "none", ret |-> FALSE]

NextModel ==
  \/ \E s \in Stages : CallUpdateStage(s)
  \/ \E s \in Stages : CallCanTransitionTo(s)

SpecModel == InitModel /\ [][NextModel]_vars

----------------------------------------------------------------------------
(* The order functions of the service called with any arguments *)

\* the totals the provider quotes for an offer when it is fetched
ProviderTotals ==
  { [total_amount |-> "100.00", total_currency |-> "EUR"],
    [total_amount |-> "120.00", total_currency |-> "USD"] }

PaymentSamples ==
  { [type |-> "card",    amount |-> 100, currency |-> "EUR"],
    [type |-> "balance", amount |-> 80,  currency |-> "EUR"] }

SvcCreateOrder(offerId, passengers, paymentDetails, services, getOk, createOk) ==
  /\ Len(duffel.orders) < MaxCalls
  /\ LET r == createOrder(duffel, offerId, passengers, paymentDetails, services,
                          getOk, createOk)
     IN  /\ duffel' = r.d
         /\ call' = [fn |-> "createOrder", ok |-> r.ok, error |-> r.error]
  /\ UNCHANGED <<conversation, bookings>>

SvcCreateHoldOrder(offerId, passengers, services, createOk) ==
  /\ Len(duffel.orders) < MaxCalls
  /\ LET r == createHoldOrder(duffel, offerId, passengers, services, createOk)
     IN  /\ duffel' = r.d
         /\ call' = [fn |-> "createHoldOrder", ok |-> r.ok,
                     error |-> IF r.ok THEN "none" ELSE "provider"]
  /\ UNCHANGED <<conversation, bookings>>

SvcPayForHoldOrder(orderId, paymentDetails, getOk, payOk) ==
  /\ Len(duffel.payments) < MaxCalls
  /\ LET r == payForHoldOrder(duffel, orderId, paymentDetails, getOk, payOk)
     IN  /\ duffel' = r.d
         /\ call' = [fn |-> "payForHoldOrder", ok |-> r.ok,
                     error |-> IF r.ok THEN "none"
                               ELSE IF r.d = duffel THEN "order" ELSE "provider"]
  /\ UNCHANGED <<conversation, bookings>>

SvcCancelOrder(orderId, createOk, confirmOk) ==
  /\ Len(duffel.cancellations) < MaxCalls
  /\ LET r == cancelOrder(duffel, orderId, createOk, confirmOk)
     IN  /\ duffel' = r.d
         /\ call' = [fn |-> "cancelOrder", ok |-> r.ok,
                     error |-> IF r.ok THEN "none" ELSE "provider"]
  /\ UNCHANGED <<conversation, bookings>>

InitService ==
  /\ conversation = NewConversation
  /\ bookings = <<>>
  /\ \E totals \in [OfferIds -> ProviderTotals] :
       duffel = [NewProvider EXCEPT !.offers = totals]
  /\ call = [fn |-> "none", ok |-> TRUE, error |-> "none"]

NextService ==
  \/ \E o \in OfferIds, ps \in PassengerLists, pd \in PaymentSamples, s \in ServiceLists,
        getOk \in BOOLEAN, createOk \in BOOLEAN :
       SvcCreateOrder(o, ps, pd, s, getOk, createOk)
  \/ \E o \in OfferIds, ps \in PassengerLists, s \in ServiceLists, createOk \in BOOLEAN :
       SvcCreateHoldOrder(o, ps, s, createOk)

SpecService == InitService /\ [][NextService]_vars

----------------------------------------------------------------------------
(* The payment and the cancellation of an order held at the provider *)

\* the provider after createHoldOrder was accepted for an offer
HeldOrders ==
  { createHoldOrder([NewProvider EXCEPT !.offers = totals], o,
                    <<PassengerSamples[1]>>, <<>>, TRUE).d :
      totals \in [OfferIds -> ProviderTotals], o \in OfferIds }

InitHoldOrder ==
  /\ conversation = NewConversation
  /\ bookings = <<>>
  /\ duffel \in HeldOrders
  /\ call = [fn |-> "createHoldOrder", ok |-> TRUE, error |-> "none"]

NextHoldOrder ==
  \/ \E id \in 1..2, pd \in PaymentSamples, getOk \in BOOLEAN, payOk \in BOOLEAN :
       SvcPayForHoldOrder(id, pd, getOk, payOk)
  \/ \E id \in 1..2, c1 \in BOOLEAN, c2 \in BOOLEAN : SvcCancelOrder(id, c1, c2)

SpecHoldOrder == InitHoldOrder /\ [][NextHoldOrder]_vars

----------------------------------------------------------------------------
(* searchFlights of services/duffel.service.js: the listing and the        *)
(* concurrent detail fetches of one call                                   *)

\* the listings offers.list can answer: offers of the provider, none repeated
OfferListings == { <<>>, <<"o1">>, <<"o2">>, <<"o1", "o2">>, <<"o2", "o1">> }

\* an offer as offers.list gives it: without available_services
listedOffer(o) ==
  [ id |-> o, total_amount |-> duffel.offers[o].total_amount,
    total_currency |-> duffel.offers[o].total_currency,
    has_available_services |-> FALSE, available_services |-> {} ]

\* fullOffer.data of offers.get with return_available_services
fullOffer(o) ==
  [listedOffer(o) EXCEPT !.has_available_services = TRUE,
                         !.available_services = availableServiceIds(o)]

detailedAlways(offer, fetchOk) == fullOffer(offer.id)

\* the try / catch around one detail fetch: the basic offer when it fails
detailed(offer, fetchOk) == IF fetchOk THEN fullOffer(offer.id) ELSE offer

\* formatOffers on raw offers, with availableServices added when they exist
formatRawOffer(offer) ==
  [ id                   |-> offer.id,
    totalAmount          |-> ParseFloat(offer.total_amount),
    totalCurrency        |-> offer.total_currency,
    durationMinutes      |-> OfferDuration[offer.id],
    departure            |-> OfferDeparture[offer.id],
    hasAvailableServices |-> offer.has_available_services,
    availableServices    |-> offer.available_services ]

NoSearch ==
  [ fn |-> "searchFlights", pc |-> "idle", listing |-> <<>>, fetches |-> <<>>,
    detailedOffers |-> <<>>, result |-> <<>> ]

\* offerRequests.create and offers.list answered (or threw), and the detail
\* fetches of all listed offers are started
SearchFlightsList(listing, listOk) ==
  /\ call.pc # "fetching"
  /\ call' = IF ~listOk THEN [NoSearch EXCEPT !.pc = "thrown"]
             ELSE [NoSearch EXCEPT
                     !.pc = "fetching",
                     !.listing = listing,
                     !.fetches = [i \in 1..Len(listing) |-> "pending"],
                     !.detailedOffers = [i \in 1..Len(listing) |-> listedOffer(listing[i])]]
  /\ UNCHANGED <<conversation, bookings, duffel>>

\* one detail fetch settles, in any order among those pending
FetchSettles(i, fetchOk) ==
  /\ call.pc = "fetching"
  /\ i \in 1..Len(call.fetches)
  /\ call.fetches[i] = "pending"
  /\ call' = [call EXCEPT
               !.fetches[i] = IF fetchOk THEN "fulfilled" ELSE "rejected",
               !.detailedOffers[i] = detailed(listedOffer(call.listing[i]), fetchOk)]
  /\ UNCHANGED <<conversation, bookings, duffel>>

\* Promise.all resolves once every fetch has settled
SearchFlightsReturn ==
  /\ call.pc = "fetching"
  /\ \A i \in 1..Len(call.fetches) : call.fetches[i] # "pending"
  /\ call' = [call EXCEPT
               !.pc = "returned",
               !.result = [i \in 1..Len(call.detailedOffers) |->
                             formatRawOffer(call.detailedOffers[i])]]
  /\ UNCHANGED <<conversation, bookings, duffel>>

InitSearch ==
  /\ conversation = NewConversation
  /\ bookings = <<>>
  /\ \E totals \in [OfferIds -> ProviderTotals] :
       duffel = [NewProvider EXCEPT !.offers = totals]
  /\ call = NoSearch

NextSearch ==
  \/ \E l \in OfferListings, ok \in BOOLEAN : SearchFlightsList(l, ok)
  \/ \E i \in 1..2, ok \in BOOLEAN : FetchSettles(i, ok)
  \/ SearchFlightsReturn

SpecSearch == InitSearch /\ [][NextSearch]_vars

----------------------------------------------------------------------------
(* Two requests of one session that overlap: POST /flights/select of a     *)
(* guest and a POST /chat/message that asks to filter the shown flights.   *)
(* Each handler loads the document with findOne, changes its own copy and  *)
(* saves it; a save writes the paths the handler changed on its copy.      *)

FilterCount == 3

\* filteredOffers.slice(0, 3) of handleFlightFilter
bestFilteredOffers(filtered) ==
  SubSeq(filtered, 1, IF Len(filtered) < FilterCount THEN Len(filtered) ELSE FilterCount)

\* POST /flights/select of a guest, run alone on conv; the two fetches of
\* services and details threw into their catch blocks
selectAlone(conv, offerId) ==
  LET i == FindOffer(conv.searchResults, offerId)
  IN  IF i = 0 THEN conv
      ELSE [conv EXCEPT !.selectedOffer = conv.searchResults[i],
                        !.currentStage = "authentication"]

\* POST /chat/message with a filter request, run alone on conv: in stage
\* selection it reaches handleFlightFilter, in stage authentication it is
\* answered by one of the two authentication branches
filterAlone(conv, filtered, searchOk) ==
  LET c0 == Push(conv, <<"user", "assistant">>)
      best == bestFilteredOffers(filtered)
  IN  CASE conv.currentStage = "authentication" -> c0
        [] conv.currentStage = "selection" ->
             IF conv.flightSearchParams.origin = ""
                \/ conv.flightSearchParams.destination = ""
             THEN c0
             ELSE IF ~searchOk \/ Len(best) = 0
             THEN Push(c0, <<"assistant">>)
             ELSE Push([c0 EXCEPT !.searchResults = best], <<"assistant">>)

\* the two requests before either has loaded the document
NoRace(conv) ==
  [ start  |-> conv,
    select |-> [pc |-> "idle", doc |-> conv, offerId |-> "o1"],
    filter |-> [pc |-> "idle", doc |-> conv, filtered |-> <<>>, searchOk |-> FALSE] ]

\* /select: findOne and searchResults.find on the loaded copy
RaceSelectLoad(offerId) ==
  /\ call.select.pc = "idle"
  /\ call' = [call EXCEPT
               !.select = [pc |-> IF FindOffer(conversation.searchResults, offerId) = 0
                                 THEN "done" ELSE "found",
                           doc |-> conversation, offerId |-> offerId]]
  /\ UNCHANGED <<conversation, bookings, duffel>>

\* /select: conversation.selectedOffer = selectedOffer, saved by the save()
\* inside trackViewedOffer
RaceSelectTrack ==
  /\ call.select.pc = "found"
  /\ LET doc == call.select.doc
         i == FindOffer(doc.searchResults, call.select.offerId)
     IN  conversation' = [conversation EXCEPT !.selectedOffer = doc.searchResults[i]]
  /\ call' = [call EXCEPT !.select.pc = "tracked"]
  /\ UNCHANGED <<bookings, duffel>>

\* /select: currentStage = 'authentication' and the final save()
RaceSelectSave ==
  /\ call.select.pc = "tracked"
  /\ conversation' = [conversation EXCEPT !.currentStage = "authentication"]
  /\ call' = [call EXCEPT !.select.pc = "done"]
  /\ UNCHANGED <<bookings, duffel>>

\* /message: findOne; a copy in stage authentication is answered at once,
\* a copy in stage selection goes to handleFlightFilter
RaceFilterLoad ==
  /\ call.filter.pc = "idle"
  /\ conversation.currentStage \in {"selection", "authentication"}
  /\ IF conversation.currentStage = "selection"
     THEN /\ call' = [call EXCEPT !.filter.pc = "loaded", !.filter.doc = conversation]
          /\ UNCHANGED conversation
     ELSE /\ call' = [call EXCEPT !.filter.pc = "done", !.filter.doc = conversation]
          /\ conversation' = Push(conversation, <<"user", "assistant">>)
  /\ UNCHANGED <<bookings, duffel>>

\* handleFlightFilter: the first save(), of the two pushed messages
RaceFilterAck ==
  /\ call.filter.pc = "loaded"
  /\ conversation' = Push(conversation, <<"user", "assistant">>)
  /\ call' = [call EXCEPT
               !.filter.pc =
                  IF call.filter.doc.flightSearchParams.origin = ""
                     \/ call.filter.doc.flightSearchParams.destination = ""
                  THEN "done" ELSE "searching"]
  /\ UNCHANGED <<bookings, duffel>>

\* handleFlightFilter: searchFlights and filterOffers answered (filtered) or
\* threw (~searchOk), and the last save()
RaceFilterSave(filtered, searchOk) ==
  /\ call.filter.pc = "searching"
  /\ LET best == bestFilteredOffers(formatOffers(filtered))
     IN  conversation' =
           IF ~searchOk \/ Len(best) = 0
           THEN Push(conversation, <<"assistant">>)
           ELSE Push([conversation EXCEPT !.searchResults = best], <<"assistant">>)
  /\ call' = [call EXCEPT !.filter.pc = "done",
                          !.filter.filtered = filtered,
                          !.filter.searchOk = searchOk]
  /\ duffel' = searchIssued(duffel, call.filter.doc.flightSearchParams)
  /\ UNCHANGED bookings

\* a guest's conversation after a search by the route
SearchedConversation(listing) ==
  [NewConversation EXCEPT
     !.currentStage = "selection",
     !.flightSearchParams = [origin |-> "AMS", destination |-> "LHR"],
     !.searchResults = formatOffers(listing)]

InitRace ==
  /\ duffel = NewProvider
  /\ bookings = <<>>
  /\ \E l \in OfferListings : conversation = SearchedConversation(l)
  /\ call = NoRace(conversation)

NextRace ==
  \/ \E o \in OfferIds : RaceSelectLoad(o)
  \/ RaceSelectTrack
  \/ RaceSelectSave
  \/ RaceFilterLoad
  \/ RaceFilterAck
  \/ \E l \in OfferListings, ok \in BOOLEAN : RaceFilterSave(l, ok)

SpecRace == InitRace /\ [][NextRace]_vars

----------------------------------------------------------------------------
(* The expiry of a stored conversation: the pre-save hook, the handlers    *)
(* that save, the cleanupExpired sweep and the expiry index on expiresAt.  *)
(* Times are hours since the conversation was created; call.now is the     *)
(* clock the handlers read with new Date().                                *)

ExpiryHours == 24

TickHours == 12

MaxTime == 72

FilterCriteria == {"direct", "morning"}

\* a second valid search, to a destination other than the first one
OtherParams == [origin |-> "AMS", destination |-> "CDG"]

\* new Conversation({...}) saved at time t: the defaults of updatedAt and
\* expiresAt
StoredConversation(t) ==
  [ currentStage       |-> "initial",
    flightSearchParams |-> NoParams,
    searchResults      |-> <<>>,
    messages           |-> <<>>,
    appliedFilters     |-> {},
    selectedOffer      |-> NoOffer,
    bookingReference   |-> 0,
    updatedAt          |-> t,
    expiresAt          |-> t + ExpiryHours,
    stored             |-> TRUE ]

\* conversationSchema.pre('save') at time t; before is the document as it
\* was loaded, so isModified(path) is doc[path] # before[path]
preSave(before, doc, t) ==
  IF doc.messages # before.messages \/ doc.currentStage # before.currentStage
  THEN [doc EXCEPT !.updatedAt = t, !.expiresAt = t + ExpiryHours]
  ELSE [doc EXCEPT !.updatedAt = t]

\* doc.save() of a handler that loaded the stored conversation
Saved(doc) ==
  /\ conversation' = preSave(conversation, doc, call.now)
  /\ UNCHANGED <<bookings, duffel, call>>

\* POST /chat/message answered with a plain message
ExpiryMessage ==
  /\ conversation.stored
  /\ CanPush(2)
  /\ Saved(Push(conversation, <<"user", "assistant">>))

\* POST /flights/search with valid parameters and a search that answered
ExpirySearch(params, listing) ==
  /\ conversation.stored
  /\ Saved([conversation EXCEPT !.searchResults = formatOffers(listing),
                                !.flightSearchParams = params,
                                !.currentStage = "selection"])

\* POST /flights/filter: conversation.applyFilter(filterCriteria)
ExpiryFilter(criterion) ==
  /\ conversation.stored
  /\ conversation.searchResults # <<>>
  /\ Saved([conversation EXCEPT !.appliedFilters = @ \cup {criterion}])

\* POST /flights/select by a logged in user
ExpirySelect(offerId) ==
  /\ conversation.stored
  /\ FindOffer(conversation.searchResults, offerId) # 0
  /\ Saved([conversation EXCEPT
              !.selectedOffer =
                 conversation.searchResults[FindOffer(conversation.searchResults, offerId)],
              !.currentStage = "additional_services"])

\* POST /bookings/create whose order and booking were created
ExpiryBooked ==
  /\ conversation.stored
  /\ conversation.selectedOffer # NoOffer
  /\ conversation.bookingReference = 0
  /\ Saved([conversation EXCEPT !.bookingReference = 1,
                                !.currentStage = "confirmation"])

\* the clock advances
Tick ==
  /\ call.now + TickHours <= MaxTime
  /\ call' = [call EXCEPT !.now = @ + TickHours]
  /\ UNCHANGED <<conversation, bookings, duffel>>

\* Conversation.cleanupExpired(): deleteMany({expiresAt: {$lt: now},
\* bookingReference: {$exists: false}})
cleanupExpired ==
  /\ conversation.stored
  /\ conversation' =
       IF conversation.expiresAt < call.now /\ conversation.bookingReference = 0
       THEN [conversation EXCEPT !.stored = FALSE]
       ELSE conversation
  /\ UNCHANGED <<bookings, duffel, call>>

\* the database's expiry of the index {expiresAt: 1} with
\* expireAfterSeconds: 0: a document whose expiresAt has passed is removed
ExpiryIndexRemoves ==
  /\ conversation.stored
  /\ conversation.expiresAt < call.now
  /\ conversation' = [conversation EXCEPT !.stored = FALSE]
  /\ UNCHANGED <<bookings, duffel, call>>

InitExpiry ==
  /\ conversation = StoredConversation(0)
  /\ bookings = <<>>
  /\ duffel = NewProvider
  /\ call = [now |-> 0]

NextExpiry ==
  \/ ExpiryMessage
  \/ \E p \in {[origin |-> "AMS", destination |-> "LHR"], OtherParams},
        l \in SearchListings : ExpirySearch(p, l)
  \/ \E c \in FilterCriteria : ExpiryFilter(c)
  \/ \E o \in OfferIds : ExpirySelect(o)
  \/ ExpiryBooked
  \/ Tick
  \/ cleanupExpired
  \/ ExpiryIndexRemoves

SpecExpiry == InitExpiry /\ [][NextExpiry]_vars

----------------------------------------------------------------------------
(* The histories a conversation keeps: updateSearchParams and              *)
(* trackViewedOffer called any number of times on one conversation.        *)
(* call.made is the list of all searches made, call.now the clock.         *)

HistoryCap == 10

MaxSearches == 12

MaxViewed == 11

\* params of updateSearchParams: a full search and one that gives only a
\* new destination
HistoryParamSamples ==
  { [origin |-> "AMS", destination |-> "LHR"], [destination |-> "CDG"] }

\* { ...this.flightSearchParams, ...params }
mergeParams(old, params) ==
  [k \in DOMAIN old \cup DOMAIN params |->
     IF k \in DOMAIN params THEN params[k] ELSE old[k]]

trimHistoryNever(history) == history

\* if (this.searchHistory.length > 10) this.searchHistory = slice(-10)
trimHistory(history) ==
  IF Len(history) > HistoryCap
  THEN SubSeq(history, Len(history) - HistoryCap + 1, Len(history))
  ELSE history

\* conversationSchema.methods.updateSearchParams at time now
updateSearchParams(conv, params, now) ==
  LET merged == mergeParams(conv.flightSearchParams, params)
  IN  [conv EXCEPT
         !.flightSearchParams = merged,
         !.searchHistory =
            trimHistory(Append(@, [searchParams |-> merged, searchedAt |-> now]))]

\* conversationSchema.methods.trackViewedOffer
trackViewedOffer(conv, offerId) ==
  IF \E i \in 1..Len(conv.viewedOffers) : conv.viewedOffers[i] = offerId
  THEN conv
  ELSE [conv EXCEPT !.viewedOffers = Append(@, offerId)]

CallUpdateSearchParams(params) ==
  /\ Len(call.made) < MaxSearches
  /\ conversation' = updateSearchParams(conversation, params, call.now + 1)
  /\ call' = [now  |-> call.now + 1,
              made |-> Append(call.made,
                              [searchParams |-> conversation'.flightSearchParams,
                               searchedAt   |-> call.now + 1])]
  /\ UNCHANGED <<bookings, duffel>>

\* offers are numbered in the order of their first selection: the selected
\* one is an offer viewed before or the next new one
CallTrackViewedOffer(offerId) ==
  /\ offerId \in 1..MaxViewed
  /\ conversation' = trackViewedOffer(conversation, offerId)
  /\ UNCHANGED <<bookings, duffel, call>>

InitHistory ==
  /\ conversation = [ flightSearchParams |-> NoParams,
                      searchHistory      |-> <<>>,
                      viewedOffers       |-> <<>> ]
  /\ bookings = <<>>
  /\ duffel = NewProvider
  /\ call = [now |-> 0, made |-> <<>>]

NextHistory ==
  \/ \E p \in HistoryParamSamples : CallUpdateSearchParams(p)
  \/ \E o \in 1..(Len(conversation.viewedOffers) + 1) : CallTrackViewedOffer(o)

SpecHistory == InitHistory /\ [][NextHistory]_vars

----------------------------------------------------------------------------
(* The context handed to the NLU: sanitizeContextForAI applied to the      *)
(* contexts of two conversations. Here conversation is the pair of         *)
(* contexts and call holds the pair of values returned.                    *)

\* a field that is null or undefined
Absent == [absent |-> TRUE]

ContextOffers ==
  { Absent,
    [id |-> "o1", totalAmount |-> 100, totalCurrency |-> "EUR",
     slices |-> <<"AMS-LHR">>, availableServices |-> <<"s1">>],
    [id |-> "o2", totalAmount |-> 100, totalCurrency |-> "EUR",
     slices |-> <<"AMS-CDG">>, availableServices |-> <<>>],
    [id |-> "o2", totalAmount |-> 100, totalCurrency |-> "EUR",
     slices |-> <<"AMS-CDG", "CDG-AMS">>, availableServices |-> <<>>] }

ContextSearchParams ==
  { Absent,
    [type |-> "one_way", origin |-> "AMS", destination |-> "LHR",
     passengers |-> 1, sortPreference |-> "price_low"] }

ContextPassengerLists ==
  { <<>>, <<ToPassengerFormat("u1")>>, <<ToPassengerFormat("u2"), NluPassenger>> }

\* the contexts built by POST /chat/message from a conversation
Contexts ==
  [ currentStage       : {"selection", "payment"},
    flightSearchParams : ContextSearchParams,
    selectedOffer      : ContextOffers,
    passengerDetails   : ContextPassengerLists,
    additionalServices : ServiceLists \cup {<<"s1">>} ]

\* !!list && list.length > 0; a list that is undefined counts as the empty
\* one
NonEmptyList(list) == Len(list) > 0

\* the object {}
EmptyObject == [empty |-> TRUE]

sanitizeContextLeaky(context) ==
  [ currentStage          |-> context.currentStage,
    flightSearchParams    |-> context.flightSearchParams,
    hasSelectedFlight     |-> context.selectedOffer # Absent,
    hasPassengerDetails   |-> NonEmptyList(context.passengerDetails),
    hasAdditionalServices |-> NonEmptyList(context.additionalServices),
    selectedFlightInfo    |-> context.selectedOffer ]

sanitizeContextForAI(context) ==
  [ currentStage          |-> context.currentStage,
    flightSearchParams    |->
       IF context.flightSearchParams = Absent THEN EmptyObject
       ELSE [type        |-> context.flightSearchParams.type,
             origin      |-> context.flightSearchParams.origin,
             destination |-> context.flightSearchParams.destination,
             passengers  |-> context.flightSearchParams.passengers],
    hasSelectedFlight     |-> context.selectedOffer # Absent,
    hasPassengerDetails   |-> NonEmptyList(context.passengerDetails),
    hasAdditionalServices |-> NonEmptyList(context.additionalServices),
    selectedFlightInfo    |->
       IF context.selectedOffer = Absent THEN Absent
       ELSE [totalAmount   |-> context.selectedOffer.totalAmount,
             totalCurrency |-> context.selectedOffer.totalCurrency,
             flightType    |-> IF Len(context.selectedOffer.slices) > 1
                               THEN "round_trip" ELSE "one_way"] ]

\* the context of each of the two conversations is sanitized
Sanitize ==
  /\ call.pc = "idle"
  /\ call' = [pc |-> "done",
              sanitized |-> << sanitizeContextForAI(conversation[1]),
                               sanitizeContextForAI(conversation[2]) >>]
  /\ UNCHANGED <<conversation, bookings, duffel>>

InitSanitize ==
  /\ conversation \in Contexts \X Contexts
  /\ bookings = <<>>
  /\ duffel = NewProvider
  /\ call = [pc |-> "idle", sanitized |-> <<>>]

NextSanitize == Sanitize

SpecSanitize == InitSanitize /\ [][NextSanitize]_vars

----------------------------------------------------------------------------
(* The selection of an offer of a stored search, by the route and by the   *)
(* chat, while the provider's prices move                                  *)

\* the provider quotes another total for an offer
ProviderReprices(o, total) ==
  /\ duffel.offers[o] # total
  /\ duffel' = [duffel EXCEPT !.offers[o] = total]
  /\ UNCHANGED <<conversation, bookings, call>>

InitSelection ==
  /\ duffel = NewProvider
  /\ bookings = <<>>
  /\ \E l \in OfferListings : conversation = SearchedConversation(l)
  /\ call = [code |-> 0, error |-> "none"]

NextSelection ==
  \/ \E o \in OfferIds, total \in ProviderTotals : ProviderReprices(o, total)
  \/ \E u \in ReqUsers, o \in OfferIds, ok \in BOOLEAN : FlightsSelect(u, o, ok)
  \/ \E u \in ReqUsers, n \in 0..2, ok \in BOOLEAN : handleSelectFlightOffer(u, n, ok)

SpecSelection == InitSelection /\ [][NextSelection]_vars

----------------------------------------------------------------------------
(* The three ways to submit a search, with the selection that follows one, *)
(* on a new conversation                                                   *)

NextSearchRoutes ==
  \/ \E p \in SearchParamSamples, l \in SearchListings, ok \in BOOLEAN :
       handleFlightSearchParams(p, l, ok)
  \/ \E p \in SearchParamSamples, l \in SearchListings, ok \in BOOLEAN :
       FlightsSearch(p, l, ok)
  \/ \E p \in SearchParamSamples, l \in SearchListings, ok \in BOOLEAN :
       FlightsSearchMultiCity(<<p>>, l, ok)
  \/ \E u \in ReqUsers, o \in OfferIds, ok \in BOOLEAN : FlightsSelect(u, o, ok)

SpecSearchRoutes == Init /\ [][NextSearchRoutes]_vars

----------------------------------------------------------------------------
(* refreshOffer called with an offer that an earlier search produced.      *)
(* call holds the search, the offer, the request sent and the value        *)
(* returned.                                                               *)

PassengerCounts ==
  [ adults : 1..MaxPax, children : 0..1, infants : 0..1 ]

\* the searches that produced the offer to refresh
OriginalSearches ==
  [ type          : {"one_way", "round_trip"},
    origin        : {"AMS"},
    destination   : {"LHR", "CDG"},
    departureDate : {"2030-06-01"},
    returnDate    : {"2030-06-08"},
    cabinClass    : {"economy", "business"},
    passengers    : PassengerCounts ]

\* DuffelService.formatPassengers; passengers is the counts object, or
\* Absent when the caller's value has no such field
formatPassengers(passengers) ==
  IF passengers = Absent THEN <<"adult">>
  ELSE [i \in 1..(IF passengers.adults < 1 THEN 1 ELSE passengers.adults) |-> "adult"]
       \o [i \in 1..passengers.children |-> "child"]
       \o [i \in 1..passengers.infants |-> "infant_without_seat"]

\* FlightSearchParams.buildSlices
buildSlices(search) ==
  <<[origin |-> search.origin, destination |-> search.destination,
     departure_date |-> search.departureDate]>>
  \o (IF search.type = "round_trip"
      THEN <<[origin |-> search.destination, destination |-> search.origin,
              departure_date |-> search.returnDate]>>
      ELSE <<>>)

\* FlightSearchParams.toDuffelFormat: the offer request of a search
toDuffelFormat(search) ==
  [ slices      |-> buildSlices(search),
    passengers  |-> formatPassengers(search.passengers),
    cabin_class |-> search.cabinClass ]

\* formatOffers applied to the offer o the provider returned for a search:
\* the fields refreshOffer reads; an offer has no passengers field
offerOfSearch(search, o) ==
  LET req == toDuffelFormat(search)
  IN  [ id           |-> o,
        totalAmount  |-> ParseFloat(duffel.offers[o].total_amount),
        totalCurrency |-> duffel.offers[o].total_currency,
        slices       |-> [i \in 1..Len(req.slices) |->
                            [origin |-> [iataCode |-> req.slices[i].origin],
                             destination |-> [iataCode |-> req.slices[i].destination],
                             departureDateTime |->
                               [date |-> req.slices[i].departure_date, time |-> "08:30:00"]]],
        cabinClass   |-> req.cabin_class ]

\* originalOffer.passengers: undefined on a value without the field
PassengersOf(offer) ==
  IF "passengers" \in DOMAIN offer THEN offer.passengers ELSE Absent

\* the offer request and the listing parameters refreshOffer sends
refreshRequest(originalOffer) ==
  [ slices      |-> [i \in 1..Len(originalOffer.slices) |->
                       [origin |-> originalOffer.slices[i].origin.iataCode,
                        destination |-> originalOffer.slices[i].destination.iataCode,
                        departure_date |-> originalOffer.slices[i].departureDateTime.date]],
    passengers  |-> formatPassengers(PassengersOf(originalOffer)),
    cabin_class |-> originalOffer.cabinClass,
    sort        |-> "total_amount",
    limit       |-> 1 ]

\* DuffelService.refreshOffer; cheapest is the one offer the provider lists
\* for sort total_amount, limit 1
refreshOffer(cheapest) ==
  /\ call.pc = "idle"
  /\ call' = [call EXCEPT !.pc = "returned",
                          !.request = refreshRequest(call.original),
                          !.returned = listedOffer(cheapest)]
  /\ UNCHANGED <<conversation, bookings, duffel>>

InitRefresh ==
  /\ conversation = NewConversation
  /\ bookings = <<>>
  /\ duffel = NewProvider
  /\ \E s \in OriginalSearches, o \in OfferIds :
       call = [ pc |-> "idle", search |-> s, original |-> offerOfSearch(s, o),
                given |-> offerOfSearch(s, o),
                request |-> Absent, returned |-> Absent ]

NextRefresh == \E o \in OfferIds : refreshOffer(o)

SpecRefresh == InitRefresh /\ [][NextRefresh]_vars

----------------------------------------------------------------------------
(* selectDiverseOffers applied to a list of offers and a count.            *)
(* call holds the arguments and the value returned.                        *)

MaxOffers == 5

\* offers whose amounts, durations and departure hours are all different
DistinctOffer(id) ==
  [ id              |-> id,
    totalAmount     |-> 100 + 10 * ((3 * id) % 7),
    durationMinutes |-> 200 + 10 * ((5 * id) % 7),
    departure       |-> 6 + ((2 * id) % 7) ]

\* offers that tie on amount and duration
TiedOffer(id) ==
  [ id              |-> id,
    totalAmount     |-> 100 + 10 * (id % 2),
    durationMinutes |-> 200,
    departure       |-> 6 + (id % 3) ]

\* the lists of offers with different ids, in every order
IdLists ==
  { l \in UNION { [1..n -> 1..MaxOffers] : n \in 0..MaxOffers } :
      \A i, j \in DOMAIN l : i # j => l[i] # l[j] }

OfferLists ==
  { [i \in DOMAIN l |-> DistinctOffer(l[i])] : l \in IdLists }
  \cup { [i \in DOMAIN l |-> TiedOffer(l[i])] : l \in IdLists }

CallSelectDiverseOffers ==
  /\ call.pc = "idle"
  /\ call' = [call EXCEPT !.pc = "returned",
                          !.result = selectDiverseOffers(call.offers, call.count)]
  /\ UNCHANGED <<conversation, bookings, duffel>>

InitDiverse ==
  /\ conversation = NewConversation
  /\ bookings = <<>>
  /\ duffel = NewProvider
  /\ \E l \in OfferLists, n \in 0..MaxOffers :
       call = [pc |-> "idle", offers |-> l, count |-> n, result |-> <<>>]

NextDiverse == CallSelectDiverseOffers

SpecDiverse == InitDiverse /\ [][NextDiverse]_vars

----------------------------------------------------------------------------
(* filterOffers applied to offers in the form formatOffers gives them.     *)
(* call holds the arguments and the value returned.                        *)

\* an ISO 8601 duration PT<h>H<m>M as the provider sends it
IsoDuration(h, m) == [form |-> "iso", hours |-> h, minutes |-> m]

\* formatDuration: 'PT2H30M' -> '2h 30m'
formatDuration(duration) ==
  IF duration.form = "iso"
  THEN [form |-> "readable", hours |-> duration.hours, minutes |-> duration.minutes]
  ELSE duration

\* parseDurationToMinutes: the pattern /PT(?:(\d+)H)?(?:(\d+)M)?/ matches
\* the ISO form only, any other text gives 0
parseDurationToMinutes(duration) ==
  IF duration.form = "iso" THEN duration.hours * 60 + duration.minutes ELSE 0

\* the slices the provider returns: first departure and ISO duration
RawSlices ==
  [ a |-> <<[departing_at |-> [hour |-> 0, minute |-> 30], duration |-> IsoDuration(2, 30)]>>,
    b |-> <<[departing_at |-> [hour |-> 12, minute |-> 0], duration |-> IsoDuration(5, 0)]>>,
    c |-> <<[departing_at |-> [hour |-> 23, minute |-> 15], duration |-> IsoDuration(1, 0)],
            [departing_at |-> [hour |-> 9, minute |-> 0], duration |-> IsoDuration(1, 30)]>>,
    d |-> <<[departing_at |-> [hour |-> 5, minute |-> 45], duration |-> IsoDuration(3, 20)]>> ]

\* formatOffers: the slices of one offer
formatSlices(raw) ==
  [i \in 1..Len(raw) |->
     [ departureDateTime |-> raw[i].departing_at,
       duration          |-> formatDuration(raw[i].duration),
       durationMinutes   |-> parseDurationToMinutes(raw[i].duration) ]]

FormattedOffer(id) ==
  [ id |-> id, totalAmount |-> 100, slices |-> formatSlices(RawSlices[id]) ]

\* the stored search results a filter is applied to
FilterInputs ==
  { [i \in DOMAIN l |-> FormattedOffer(l[i])] :
      l \in { s \in UNION { [1..n -> DOMAIN RawSlices] : n \in 0..3 } :
                \A i, j \in DOMAIN s : i # j => s[i] # s[j] } }

\* criteria.departureTime: hours of from and to; criteria.maxDuration, with
\* 0 for a criterion that is not given
FilterCriteriaSamples ==
  [ departureTime : {Absent, [from |-> 23, to |-> 5], [from |-> 6, to |-> 12],
                     [from |-> 9, to |-> 9]},
    maxPrice      : {0, 100},
    maxDuration   : {0, 150, 200} ]

RECURSIVE SumParsedDurations(_, _)
\* offer.slices.reduce((total, slice) => total + parseDurationToMinutes(slice.duration), 0)
SumParsedDurations(slices, i) ==
  IF i > Len(slices) THEN 0
  ELSE parseDurationToMinutes(slices[i].duration) + SumParsedDurations(slices, i + 1)

\* the test of the time-based filter
inDepartureWindow(offer, window) ==
  LET hour == offer.slices[1].departureDateTime.hour
  IN  IF window.to < window.from
      THEN hour >= window.from \/ hour <= window.to
      ELSE hour >= window.from /\ hour <= window.to

\* DuffelService.filterOffers for the criteria departureTime, maxPrice and
\* maxDuration (no connection, airline or sort criterion given)
filterOffers(offers, criteria) ==
  LET keepTime(o) == criteria.departureTime = Absent
                     \/ inDepartureWindow(o, criteria.departureTime)
      keepPrice(o) == criteria.maxPrice = 0 \/ o.totalAmount <= criteria.maxPrice
      keepDuration(o) == criteria.maxDuration = 0
                         \/ SumParsedDurations(o.slices, 1) <= criteria.maxDuration
  IN  SelectSeq(SelectSeq(SelectSeq(offers, keepTime), keepPrice), keepDuration)

CallFilterOffers ==
  /\ call.pc = "idle"
  /\ call' = [call EXCEPT !.pc = "returned",
                          !.result = filterOffers(call.offers, call.criteria)]
  /\ UNCHANGED <<conversation, bookings, duffel>>

InitFilter ==
  /\ conversation = NewConversation
  /\ bookings = <<>>
  /\ duffel = NewProvider
  /\ \E l \in FilterInputs, c \in FilterCriteriaSamples :
       call = [pc |-> "idle", offers |-> l, criteria |-> c, result |-> <<>>]

NextFilter == CallFilterOffers

SpecFilter == InitFilter /\ [][NextFilter]_vars

----------------------------------------------------------------------------
(* validateMultiCity applied to a multi-city search.                       *)
(* call holds the search and the errors returned.                          *)

Airports == {"AMS", "LHR", "CDG"}

\* multi-city searches with valid airport codes and dates in sequence
MultiCitySearches ==
  [ origin          : {"AMS"},
    destination     : {"LHR", "CDG"},
    additionalStops : UNION { [1..n -> [origin : Airports, destination : Airports]]
                              : n \in 0..2 } ]

\* ValidationService.validateMultiCity: the errors about additionalStops;
\* segment is the loop index i of the pair (allSegments[i], allSegments[i+1])
validateMultiCity(params) ==
  IF Len(params.additionalStops) = 0
  THEN { [message |-> "At least one additional stop is required", segment |-> 0] }
  ELSE LET allSegments ==
             <<[origin |-> params.origin, destination |-> params.destination]>>
             \o params.additionalStops
       IN  { [message |-> "destination doesn't match next origin", segment |-> i] :
               i \in { k \in 0..(Len(allSegments) - 2) :
                         k > 0 /\ allSegments[k + 1].destination # allSegments[k + 2].origin } }

CallValidateMultiCity ==
  /\ call.pc = "idle"
  /\ call' = [call EXCEPT !.pc = "returned", !.errors = validateMultiCity(call.params)]
  /\ UNCHANGED <<conversation, bookings, duffel>>

InitMultiCity ==
  /\ conversation = NewConversation
  /\ bookings = <<>>
  /\ duffel = NewProvider
  /\ \E p \in MultiCitySearches : call = [pc |-> "idle", params |-> p, errors |-> {}]

NextMultiCity == CallValidateMultiCity

SpecMultiCity == InitMultiCity /\ [][NextMultiCity]_vars

----------------------------------------------------------------------------
(* POST /bookings/create sent more than once for one session.              *)

MaxOrders == 2

RepeatCreate(u, paymentType, getOk, createOk, saveOk) ==
  /\ Len(duffel.orders) < MaxOrders
  /\ BookingsCreateRoute(u, paymentType, <<"s2", "s1">>, getOk, createOk, saveOk)

NextRepeatCreate ==
  \E u \in ReqUsers, t \in PaymentTypes,
     getOk \in BOOLEAN, createOk \in BOOLEAN, saveOk \in BOOLEAN :
    RepeatCreate(u, t, getOk, createOk, saveOk)

SpecRepeatCreate == InitBookings /\ [][NextRepeatCreate]_vars

----------------------------------------------------------------------------
(* The routes that write currentStage, on a conversation ready to book.    *)

\* the conversation after /chat/start, /flights/search and /flights/select,
\* by a logged-in user or by a guest: no message has been exchanged
SelectedConversations ==
  { [ReadyConversation(u, <<"o2", "o1">>, o) EXCEPT
       !.currentStage = "additional_services", !.messages = <<>>]
    : u \in Users, o \in OfferIds }
  \cup
  { [GuestConversation(o) EXCEPT !.messages = <<>>, !.passengerDetails = <<>>]
    : o \in OfferIds }

InitConfirmation ==
  /\ duffel = NewProvider
  /\ conversation \in SelectedConversations
  /\ bookings = <<>>
  /\ call = [code |-> 0, error |-> "none"]

NextConfirmation ==
  \/ \E createOk \in BOOLEAN, saveOk \in BOOLEAN :
       RepeatCreate(NoUser, "balance", TRUE, createOk, saveOk)
  \/ \E u \in Users : ChatSetAuthenticated(u)
  \/ \E u \in Users : ChatMessageLoggedIn(u)
  \/ ChatMessagePassengerDetailsCompleted(NoUser)
  \/ ChatMessageAdditionalServicesCompleted(NoUser)
  \/ \E u \in ReqUsers, o \in OfferIds, ok \in BOOLEAN : FlightsSelect(u, o, ok)

SpecConfirmation == InitConfirmation /\ [][NextConfirmation]_vars

----------------------------------------------------------------------------
(* Properties *)

\* the edges of the stage transition table, written out
TransitionEdges ==
  { <<"initial", "search">>,
    <<"search", "selection">>,
    <<"selection", "authentication">>,
    <<"selection", "passenger_details">>,
    <<"authentication", "passenger_details">>,
    <<"authentication", "additional_services">>,
    <<"passenger_details", "additional_services">>,
    <<"additional_services", "payment">>,
    <<"payment", "confirmation">> }

\* C1: under the request handlers, every change of the conversation's
\* currentStage follows an edge of the transition table.
C1_StageChangesFollowTable ==
  [][conversation'.currentStage # conversation.currentStage
       => <<conversation.currentStage, conversation'.currentStage>> \in TransitionEdges]_vars

\* C2: updateStage(target) sets the stage to target and returns true exactly
\* when (current, target) is an edge of the table; for every other pair it
\* returns false and leaves the stage (and the rest of the document) as it was.
C2_UpdateStageFollowsTable ==
  call.method = "updateStage" =>
    IF <<call.before, call.arg>> \in TransitionEdges
    THEN call.ret /\ conversation.currentStage = call.arg
    ELSE ~call.ret /\ conversation.currentStage = call.before

\* updateStage('selection') was called in stage payment and rejected
C2_RejectedFromPayment ==
  /\ call.method = "updateStage"
  /\ call.before = "payment"
  /\ call.arg = "selection"
  /\ ~call.ret
  /\ conversation.currentStage = "payment"

\* C3: once the conversation's currentStage is confirmation, no request
\* changes it.
C3_ConfirmationIsTerminal ==
  [][conversation.currentStage = "confirmation"
       => conversation'.currentStage = "confirmation"]_vars

\* the stored passenger list does not fill the selected offer's slots
CountMismatch ==
  /\ conversation.selectedOffer # NoOffer
  /\ Len(conversation.passengerDetails) # 0
  /\ Len(conversation.passengerDetails) # OfferSlots[conversation.selectedOffer.id]

\* C4: while the conversation's passenger list differs in length from the
\* selected offer's passenger slots, no request makes the provider receive an
\* order-creation call or adds a Booking, the booking route never answers
\* success, and the answer 'Passenger count mismatch' leaves the conversation
\* (stage, booking reference, payment status) as it was.
C4_CountMismatchCreatesNothing ==
  [][CountMismatch =>
       /\ duffel'.orders = duffel.orders
       /\ bookings' = bookings
       /\ conversation'.bookingReference = conversation.bookingReference
       /\ conversation'.paymentStatus = conversation.paymentStatus
       /\ (call'.error = "Passenger count mismatch" => conversation' = conversation)]_vars

\* the booking route answered with the count mismatch of createOrder
C4_MismatchAnswered ==
  /\ CountMismatch
  /\ call.code = 500
  /\ call.error = "Passenger count mismatch"
  /\ duffel.orders = <<>>
  /\ bookings = <<>>
  /\ conversation.currentStage # "confirmation"

\* C5: the payment of every order-creation request sent by createOrder
\* carries the total amount and currency the provider quotes for the offer,
\* whatever amount and currency the caller passed.
C5_PaymentIsOfferTotal ==
  \A i \in 1..Len(duffel.orders) :
    duffel.orders[i].by = "createOrder" =>
      LET e == duffel.orders[i]
          quoted == duffel.offers[e.args.offerId]
      IN  /\ Len(e.data.payments) = 1
          /\ e.data.payments[1].amount = quoted.total_amount
          /\ e.data.payments[1].currency = quoted.total_currency

\* createOrder sent a request although the caller passed another amount and
\* another currency than the offer's
C5_CallerPassedAnotherPrice ==
  \E i \in 1..Len(duffel.orders) :
    LET e == duffel.orders[i]
        quoted == duffel.offers[e.args.offerId]
    IN  /\ e.by = "createOrder"
        /\ e.args.paymentDetails.amount # ParseFloat(quoted.total_amount)
        /\ e.args.paymentDetails.currency # quoted.total_currency
        /\ e.data.payments[1].amount = quoted.total_amount

\* C6: every payment payForHoldOrder submits carries the amount and the
\* currency of the order it fetched just before, and a call whose fetch fails
\* submits no payment.
C6_PaysFetchedOrderTotal ==
  /\ [](\A i \in 1..Len(duffel.payments) :
          LET p == duffel.payments[i]
          IN  /\ ParseFloat(p.payment.amount) = ParseFloat(p.fetched.total_amount)
              /\ p.payment.currency = p.fetched.total_currency)
  /\ [][call'.fn = "payForHoldOrder" /\ call'.error = "order"
          => duffel'.payments = duffel.payments]_vars

\* C7: every request createHoldOrder sends is for a passenger list that
\* fills the offer's slots, carries the passenger records createOrder sends
\* for the same offer and list, and differs only in carrying no payment.
C7_HoldOrderSendsSamePassengers ==
  \A i \in 1..Len(duffel.orders) :
    duffel.orders[i].by = "createHoldOrder" =>
      LET e == duffel.orders[i]
      IN  /\ Len(e.args.passengers) = OfferSlots[e.args.offerId]
          /\ e.data.passengers = formattedPassengers(e.args.offerId, e.args.passengers)
          /\ e.data.services =
               formattedServices(validServices(e.args.offerId, e.args.services))
          /\ e.data.payments = <<>>

\* the provider holds a confirmed cancellation of the order
ConfirmedCancellation(d, orderId) ==
  \E k \in 1..Len(d.cancellations) :
    d.cancellations[k].order_id = orderId /\ d.cancellations[k].confirmed

\* C8: a booking's status becomes cancelled only in a state where the
\* provider holds a confirmed cancellation of its order, and a failed
\* cancellation leaves every booking as it was.
C8_CancelledOnlyAfterConfirmedCancellation ==
  [][/\ \A b \in 1..Len(bookings) :
          bookings[b].status # "cancelled" /\ bookings'[b].status = "cancelled"
            => ConfirmedCancellation(duffel', bookings[b].duffelOrderId)
     /\ (call'.error = "cancellation" => bookings' = bookings)]_vars

\* C9: every Booking refers to an order the provider accepted from
\* createOrder, a conversation carries a booking reference only of such a
\* Booking, and a request whose order creation failed saves no Booking and
\* leaves the conversation as it was.
C9_BookingOnlyAfterOrder ==
  /\ [](/\ \A b \in 1..Len(bookings) :
             /\ OrderExists(duffel, bookings[b].duffelOrderId)
             /\ duffel.orders[bookings[b].duffelOrderId].by = "createOrder"
        /\ (conversation.bookingReference # 0 \/ conversation.currentStage = "confirmation"
            \/ conversation.paymentStatus = "completed"
              => \E b \in 1..Len(bookings) :
                   /\ bookings[b].bookingReference = conversation.bookingReference
                   /\ bookings[b].duffelOrderId = conversation.duffelOrderId))
  /\ [][call'.error \in {"offer", "Passenger count mismatch",
                        "No matching passenger ID", "provider"}
          => bookings' = bookings /\ conversation' = conversation]_vars

\* the provider rejected the order and nothing was booked
C9_OrderRejected ==
  /\ call.code = 400
  /\ call.error = "provider"
  /\ Len(duffel.orders) = 1
  /\ ~duffel.orders[1].accepted
  /\ bookings = <<>>
  /\ conversation.currentStage = "payment"
  /\ conversation.bookingReference = 0

StatusRank == [pending |-> 1, confirmed |-> 2, completed |-> 3, cancelled |-> 4]

\* C10: a Booking's status only moves forward, pending then confirmed then
\* completed, or to cancelled; a cancelled booking keeps its status.
C10_StatusMovesForward ==
  [][\A b \in 1..Len(bookings) :
       StatusRank[bookings'[b].status] >= StatusRank[bookings[b].status]]_vars

\* C11: the services of every order-creation request sent by createOrder are
\* the requested services whose id the offer lists as available, in request
\* order; the others are left out and the request is sent all the same.
C11_ServicesAreTheAvailableOnes ==
  \A i \in 1..Len(duffel.orders) :
    duffel.orders[i].by = "createOrder" =>
      LET e == duffel.orders[i]
          requested == e.args.services
          sent == e.data.services
          kept == { k \in 1..Len(requested) :
                      requested[k] \in availableServiceIds(e.args.offerId) }
      IN  /\ Len(sent) = Cardinality(kept)
          /\ \A k \in kept :
                sent[Cardinality({ j \in kept : j <= k })].id = requested[k]

\* the provider accepted an order of createOrder from which one requested
\* service was left out and two were kept
C11_ServiceLeftOut ==
  /\ call.fn = "createOrder"
  /\ call.ok
  /\ \E i \in 1..Len(duffel.orders) :
       /\ duffel.orders[i].by = "createOrder"
       /\ duffel.orders[i].accepted
       /\ duffel.orders[i].args.services = <<"s3", "s2", "s1">>
       /\ duffel.orders[i].data.services =
            <<[id |-> "s3", quantity |-> 1], [id |-> "s1", quantity |-> 1]>>

\* C12: a returned search has one offer per listed offer, in listing order,
\* every fetch has settled by then, the offer of a failed fetch is in its
\* listed form and every other offer is enriched; and the search throws only
\* when the listing failed, never because of a detail fetch.
C12_FailedFetchKeepsBasicOffer ==
  /\ call.pc = "returned" =>
       /\ Len(call.result) = Len(call.listing)
       /\ \A i \in 1..Len(call.listing) :
            /\ call.result[i].id = call.listing[i]
            /\ call.fetches[i] \in {"fulfilled", "rejected"}
            /\ call.result[i].hasAvailableServices = (call.fetches[i] = "fulfilled")
            /\ call.result[i].availableServices =
                 IF call.fetches[i] = "fulfilled"
                 THEN availableServiceIds(call.listing[i]) ELSE {}
            /\ call.result[i].totalAmount =
                 ParseFloat(duffel.offers[call.listing[i]].total_amount)
  /\ call.pc = "thrown" => call.fetches = <<>>

\* a search returned two offers although the fetch of the first failed
C12_OneFetchFailed ==
  /\ call.pc = "returned"
  /\ call.fetches = <<"rejected", "fulfilled">>
  /\ Len(call.result) = 2
  /\ ~call.result[1].hasAvailableServices
  /\ call.result[2].hasAvailableServices

\* the stage and the result list that running the two requests one after
\* the other, in either order, leaves in the document
SerialOutcomes ==
  LET f == call.filter
      a == selectAlone(call.start, call.select.offerId)
      b == filterAlone(call.start, formatOffers(f.filtered), f.searchOk)
      ab == filterAlone(a, formatOffers(f.filtered), f.searchOk)
      ba == selectAlone(b, call.select.offerId)
  IN  { <<ab.currentStage, ab.searchResults>>, <<ba.currentStage, ba.searchResults>> }

\* C13: once two overlapping requests of one session (a selection by the
\* route and a filter message) have both finished, the stored stage and
\* search results are those of running the two one after the other in one
\* of the two orders
C13_OverlapEqualsSomeSerialOrder ==
  (call.select.pc = "done" /\ call.filter.pc = "done")
    => <<conversation.currentStage, conversation.searchResults>> \in SerialOutcomes

\* C14: a search whose parameters validateFlightSearch reports an error
\* for, submitted by the chat function call, /flights/search or
\* /flights/search-multi-city, issues no search to the provider and leaves
\* the stage, the stored search parameters and the search results as they were
C14_InvalidSearchChangesNothing ==
  [][\A p \in SearchParamSamples, l \in SearchListings, ok \in BOOLEAN :
       (/\ validateFlightSearch(p) # {}
        /\ \/ handleFlightSearchParams(p, l, ok)
           \/ FlightsSearch(p, l, ok)
           \/ FlightsSearchMultiCity(<<p>>, l, ok))
       => /\ duffel'.searches = duffel.searches
          /\ conversation'.currentStage = conversation.currentStage
          /\ conversation'.flightSearchParams = conversation.flightSearchParams
          /\ conversation'.searchResults = conversation.searchResults]_vars

\* a search was rejected by the validation after an earlier one had stored
\* its parameters and results
C14_SearchRejected ==
  /\ call.code = 400
  /\ call.error = "validation"
  /\ duffel.searches # {}
  /\ conversation.searchResults # <<>>

\* C15: every save that changes the stage, the search parameters, the
\* search results or the message log of a conversation sets its expiresAt
\* to 24 hours after the time of the save
C15_EverySavedChangeRefreshesExpiry ==
  [][(/\ conversation'.stored
      /\ \/ conversation'.currentStage # conversation.currentStage
         \/ conversation'.flightSearchParams # conversation.flightSearchParams
         \/ conversation'.searchResults # conversation.searchResults
         \/ conversation'.messages # conversation.messages)
     => conversation'.expiresAt = call.now + ExpiryHours]_vars

\* C16: a conversation that holds a booking reference stays stored,
\* whatever the sweep and the expiry index do and however much time passes
C16_BookedConversationIsKept ==
  [][(conversation.stored /\ conversation.bookingReference # 0)
     => conversation'.stored]_vars

\* C17: after any number of updateSearchParams calls the search history
\* holds at most 10 entries, and they are the most recent searches made, in
\* the order they were made
C17_HistoryIsTheLastTenSearches ==
  LET h == conversation.searchHistory
      n == Len(call.made)
  IN  /\ Len(h) <= HistoryCap
      /\ Len(h) = (IF n < HistoryCap THEN n ELSE HistoryCap)
      /\ \A k \in 1..Len(h) : h[k] = call.made[n - Len(h) + k]

\* more searches were made than the history keeps
C17_OlderSearchesDropped ==
  /\ Len(call.made) > HistoryCap
  /\ conversation.searchHistory[1].searchedAt > 1

\* C18: after any number of offer selections the list of viewed offers is
\* no longer than a fixed cap, the one of the search history
C18_ViewedOffersCapped ==
  Len(conversation.viewedOffers) <= HistoryCap

\* two contexts that agree on what the NLU may see: the stage, the search
\* parameters, the selected offer's price, currency and slice count, and
\* the presence of passenger details and of services
SameVisibleData(a, b) ==
  /\ a.currentStage = b.currentStage
  /\ a.flightSearchParams = b.flightSearchParams
  /\ (a.selectedOffer = Absent) = (b.selectedOffer = Absent)
  /\ a.selectedOffer # Absent =>
       /\ a.selectedOffer.totalAmount = b.selectedOffer.totalAmount
       /\ a.selectedOffer.totalCurrency = b.selectedOffer.totalCurrency
       /\ Len(a.selectedOffer.slices) = Len(b.selectedOffer.slices)
  /\ NonEmptyList(a.passengerDetails) = NonEmptyList(b.passengerDetails)
  /\ NonEmptyList(a.additionalServices) = NonEmptyList(b.additionalServices)

\* C19: sanitizeContextForAI returns the same value for two conversations
\* that agree on the stage, the search parameters, the selected offer's
\* price, currency and slice count and on the presence of passenger details
\* and services, whatever their passenger records, service records and
\* other offer fields are
C19_SanitizedContextHidesPersonalData ==
  (call.pc = "done" /\ SameVisibleData(conversation[1], conversation[2]))
    => call.sanitized[1] = call.sanitized[2]

\* two conversations with different passengers, services and offers were
\* sanitized to one value
C19_DifferentPassengersSameContext ==
  /\ call.pc = "done"
  /\ SameVisibleData(conversation[1], conversation[2])
  /\ conversation[1].passengerDetails # conversation[2].passengerDetails
  /\ conversation[1].passengerDetails # <<>>
  /\ conversation[1].selectedOffer # Absent
  /\ conversation[1].selectedOffer # conversation[2].selectedOffer
  /\ conversation[1].additionalServices # conversation[2].additionalServices

\* C20: an offer stored in the search results is never modified: after a
\* selection by the route or by the chat the offer stored at each place of
\* the list has every field as it was when the search stored it
C20_StoredOfferIsNeverModified ==
  [][\A i \in 1..Len(conversation.searchResults) :
       (/\ i <= Len(conversation'.searchResults)
        /\ conversation'.searchResults[i].id = conversation.searchResults[i].id)
       => conversation'.searchResults[i] = conversation.searchResults[i]]_vars

\* the number of passengers of a type in an offer request
CountOfType(passengers, type) ==
  Cardinality({i \in 1..Len(passengers) : passengers[i] = type})

\* C21: refreshOffer sends a search with the slices (origin, destination,
\* departure date), the cabin class and the passenger counts per type of
\* the search that produced the original offer, asks for the one cheapest
\* offer, returns it, and leaves the original offer as it was
C21_RefreshRepeatsTheOriginalSearch ==
  call.pc = "returned" =>
    LET first == toDuffelFormat(call.search)
    IN  /\ call.request.slices = first.slices
        /\ call.request.cabin_class = first.cabin_class
        /\ \A t \in {"adult", "child", "infant_without_seat"} :
             CountOfType(call.request.passengers, t) = CountOfType(first.passengers, t)
        /\ call.request.sort = "total_amount"
        /\ call.request.limit = 1
        /\ call.returned.id \in OfferIds
        /\ call.original = call.given

\* C22: selectDiverseOffers(offers, n) returns offers of the input, no
\* offer id twice, exactly min(n, len(offers)) of them, and the whole input
\* when len(offers) <= n
C22_DiverseSelectionSizeAndIds ==
  call.pc = "returned" =>
    LET r == call.result
        n == call.count
        len == Len(call.offers)
    IN  /\ \A i \in 1..Len(r) : \E j \in 1..len : call.offers[j] = r[i]
        /\ \A i, j \in 1..Len(r) : i # j => r[i].id # r[j].id
        /\ Len(r) = (IF n < len THEN n ELSE len)
        /\ len <= n => r = call.offers

\* a selection that had to fill a fourth place from more offers than asked
C22_FilledBeyondTheThreePicks ==
  /\ call.pc = "returned"
  /\ call.count >= 4
  /\ Len(call.offers) > call.count
  /\ Len(call.result) = call.count

\* the ids of a list of offers
IdsOf(offers) == { offers[i].id : i \in 1..Len(offers) }

\* the offers of a list in the order of their ids
SortedById(offers) ==
  CHOOSE s \in [1..Len(offers) -> { offers[i] : i \in 1..Len(offers) }] :
    /\ \A i \in 1..Len(offers) : \E j \in 1..Len(offers) : s[j] = offers[i]
    /\ \A i, j \in 1..Len(offers) : i < j => s[i].id < s[j].id

NoTies(offers) ==
  \A i, j \in 1..Len(offers) : i # j =>
    /\ offers[i].id # offers[j].id
    /\ offers[i].totalAmount # offers[j].totalAmount
    /\ offers[i].durationMinutes # offers[j].durationMinutes
    /\ offers[i].departure # offers[j].departure

\* C23: for offers without ties the set selectDiverseOffers returns is the
\* one it returns for the same offers in any other order (here: in the
\* order of their ids)
C23_SelectionIgnoresInputOrder ==
  (call.pc = "returned" /\ NoTies(call.offers))
    => IdsOf(call.result) = IdsOf(selectDiverseOffers(SortedById(call.offers), call.count))

RECURSIVE SumDurationMinutes(_, _)
\* the sum of the slices' durations in minutes
SumDurationMinutes(slices, i) ==
  IF i > Len(slices) THEN 0
  ELSE slices[i].durationMinutes + SumDurationMinutes(slices, i + 1)

\* C24: with maxDuration = d alone, filterOffers keeps exactly the stored
\* offers whose slices' durations in minutes sum to at most d, in their
\* original order
C24_MaxDurationKeepsShortOffers ==
  (/\ call.pc = "returned"
   /\ call.criteria.maxDuration # 0
   /\ call.criteria.departureTime = Absent
   /\ call.criteria.maxPrice = 0)
  => LET short(o) == SumDurationMinutes(o.slices, 1) <= call.criteria.maxDuration
     IN  call.result = SelectSeq(call.offers, short)

\* C25: with a departure-time window alone, filterOffers keeps an offer
\* exactly when the departure hour h of its first slice has from <= h < to
\* for from <= to, and h >= from or h <= to for to < from
C25_DepartureWindowIsHalfOpen ==
  (/\ call.pc = "returned"
   /\ call.criteria.departureTime # Absent
   /\ call.criteria.maxDuration = 0
   /\ call.criteria.maxPrice = 0)
  => LET w == call.criteria.departureTime
         inside(o) ==
           LET h == o.slices[1].departureDateTime.hour
           IN  IF w.from <= w.to THEN w.from <= h /\ h < w.to
               ELSE h >= w.from \/ h <= w.to
     IN  call.result = SelectSeq(call.offers, inside)

\* C26: for a multi-city search with additional stops, validateMultiCity
\* reports a continuity error for exactly the adjacent pairs of the whole
\* chain (first segment, then the stops) whose segments do not connect
C26_EveryBrokenPairIsReported ==
  (call.pc = "returned" /\ Len(call.params.additionalStops) > 0)
  => LET chain == <<[origin |-> call.params.origin,
                     destination |-> call.params.destination]>>
                  \o call.params.additionalStops
     IN  \A k \in 1..(Len(chain) - 1) :
           (chain[k].destination # chain[k + 1].origin)
             <=> (\E e \in call.errors : e.segment = k - 1)

\* C27: a conversation never has more than one order accepted by the
\* provider nor more than one Booking record
C27_AtMostOneOrderPerConversation ==
  /\ Cardinality({ i \in 1..Len(duffel.orders) : duffel.orders[i].accepted }) <= 1
  /\ Cardinality({ b \in 1..Len(bookings) : bookings[b].conversationId = 1 }) <= 1

\* C28: a cancel request for a booking linked to a user, sent with no
\* authenticated user or as another user, reaches no provider
\* cancellation and leaves the booking as it was
C28_OnlyTheOwnerCancels ==
  [][ \A u \in ReqUsers, c1 \in BOOLEAN, c2 \in BOOLEAN :
        \A b \in 1..Len(bookings) :
          ( /\ BookingsCancel(u, b, c1, c2)
            /\ bookings[b].userId # NoUser
            /\ u # bookings[b].userId )
          => UNCHANGED <<bookings, duffel>> ]_vars

\* C29: a chat message sent with no authenticated user while the
\* conversation is in stage authentication leaves it in that stage
C29_UnauthenticatedMessageKeepsAuthenticationStage ==
  [][ ( /\ conversation.currentStage = "authentication"
        /\ \/ ChatMessagePassengerDetailsCompleted(NoUser)
           \/ ChatMessageAdditionalServicesCompleted(NoUser)
           \/ ChatMessageRequiresAuth(NoUser) )
      => conversation'.currentStage = "authentication" ]_vars

\* C30: a conversation in stage confirmation has a booking reference, a
\* provider order id, payment status completed, and a Booking record
C30_ConfirmationHasItsBooking ==
  conversation.currentStage = "confirmation"
  => /\ conversation.bookingReference # 0
     /\ conversation.duffelOrderId # 0
     /\ conversation.paymentStatus = "completed"
     /\ \E b \in 1..Len(bookings) :
          /\ bookings[b].conversationId = 1
          /\ bookings[b].bookingReference = conversation.bookingReference

\* the conversation is in confirmation again after a second accepted order
C30_ConfirmedTwice ==
  /\ conversation.currentStage = "confirmation"
  /\ Len(bookings) = 2

====
